---- MODULE Spec2Model ----
(***************************************************************************)
(* Secure tunnel of aytch4k/decentralized-identity.                        *)
(*                                                                         *)
(* The model is one node (SecureTunnelNode + TunnelService, of either      *)
(* type) that accepts inbound connections, and the remote peers that dial  *)
(* it.  For each remote peer the model keeps the transport link, the       *)
(* connection record each side holds for the other (the shared key of the  *)
(* key exchange), and the node's TunnelService.sessions map.               *)
(*                                                                         *)
(* Everything the code draws from crypto.randomBytes / key generation      *)
(* (KEM shares, Ed25519 key pairs, session ids, challenges) is an input    *)
(* taken from a small set: any value of the set may come out of a draw.    *)
(* sha256 is modelled as an injective function of its input (the input     *)
(* itself), an AES-GCM ciphertext and its tag as terms over the plaintext, *)
(* the key and the iv, an Ed25519 signature as the pair (message, signing  *)
(* key).                                                                   *)
(*                                                                         *)
(* The holder side is the same node calling connectToMiddleware and the    *)
(* request* methods: each call stands at one of its awaits, several calls  *)
(* can be running, and the relay they talk to answers as _handleAuth and   *)
(* the request handlers do.                                                *)
(***************************************************************************)
EXTENDS Integers, FiniteSets, Sequences, TLC

\* ------------------------------------------------------------- bounds
MaxPeers == 2
MaxShare == 1
MaxKxShare == 2
MaxKey == 2
MaxSid == 2
MaxChal == 2
MaxAddr == 1
MaxCid == 1
MaxStreams == 2
MaxIv == 2
MaxWallet == 2

Peers == 1..MaxPeers            \* remote peer ids
Shares == 1..MaxShare           \* values of crypto.randomBytes(32) in encapsulate
KxShares == 1..MaxKxShare       \* the same, in the runs that explore the key exchange
Keys == 1..MaxKey               \* Ed25519 key pairs generateKeyPairSync can return
SessionIds == 1..MaxSid         \* values of crypto.randomBytes(16).toString('hex')
Challenges == 1..MaxChal        \* challenge strings
Addresses == 1..MaxAddr         \* wallet address strings
Cids == 1..MaxCid               \* vault content ids
Streams == 1..MaxStreams        \* protocol streams a peer opens on one connection
Ivs == 1..MaxIv                 \* values of crypto.randomBytes(12) in _encryptMessage
WalletKeys == 1..MaxWallet      \* wallet private keys (strings)

\* A field that is absent from a JSON message (JavaScript undefined).
Undefined == 0

VARIABLES
  type,             \* TunnelService.type / SecureTunnelNode.type of the node
  link,             \* link[p]: a libp2p connection between peer p and the node is up
  connections,      \* SecureTunnelNode.connections of the node: peer -> [sharedKey]
  peerConnections,  \* peerConnections[p]: the record peer p's node holds for this node
  reading,          \* reading[p]: a _handleStream loop is waiting on p's protocol stream
  sessions,         \* TunnelService.sessions of the node: peer -> [walletAddress, sessionId]
  last,             \* what the latest step did, when it was a _handleStream round
  everAuth,         \* history: peers whose Authenticate succeeded at least once
  authenticated,    \* history: peers whose Authenticate succeeded on their current
                    \* connection (the Authenticated state of the session)
  pending,          \* peers with a request dispatched to a handler that is still
                    \* awaiting a collaborator: no response written for it
  kx,               \* kx[p]: stream -> the await at which the _performKeyExchange
                    \* that _handleProtocol started for that stream of p stands
  streams,          \* history: streams[p]: stream -> the key in p's record when
                    \* _handleStream was started on it, and whether _handleProtocol
                    \* ran a key exchange for the stream
  dialer,           \* dialer[p]: where connectToPeer stands on a peer p that runs
                    \* this code as the dialling side
  fn,               \* the latest call of one of the node's cryptographic functions
                    \* made on its own: its arguments and what came out of it
  holder            \* the calls of connectToMiddleware and of the request*
                    \* methods the node is running, each at its await, the
                    \* protocol stream of each connection record, what is
                    \* written on it, and the token each relay stores for the node

hsVars == <<kx, streams, dialer>>

nodeVars == <<type, link, connections, peerConnections, reading, sessions, last,
              everAuth, authenticated, pending, kx, streams, dialer>>

vars == <<nodeVars, fn, holder>>

\* ------------------------------------------------------ Map (JavaScript)
EmptyMap == [k \in {} |-> Undefined]

MapHas(m, k) == k \in DOMAIN m

MapSet(m, k, v) == [x \in DOMAIN m \cup {k} |-> IF x = k THEN v ELSE m[x]]

MapDelete(m, k) == [x \in DOMAIN m \ {k} |-> m[x]]

\* ------------------------------------------------------------- Kyber
\* crypto.createHash('sha256').update(Buffer.concat([sharedKey, peerSharedKey])):
\* the hash of the own share followed by the peer's share.
CombineKeys(sharedKey, peerSharedKey) == <<sharedKey, peerSharedKey>>

\* _performKeyExchange on one side: encapsulate draws the own share, decapsulate
\* recovers the share the other side drew, the two are combined.
PerformKeyExchange(ownShare, peerShare) ==
  [sharedKey |-> CombineKeys(ownShare, peerShare)]

\* ------------------------------------------------------------- Dilithium
\* A signature that is not the hex of an Ed25519 signature (absent, garbage).
Malformed == [msg |-> Undefined, key |-> Undefined]

Signatures == [msg : Challenges, key : Keys] \cup {Malformed}

\* Dilithium.sign(message, privateKey) with a string privateKey: the key pair is
\* the one generateKeyPairSync('ed25519', ...) returns (signingKey).
Sign(message, signingKey) == [msg |-> message, key |-> signingKey]

\* What a block of code ends with: a value it returns or an exception.
Returns(value) == [threw |-> FALSE, value |-> value]

Throws == [threw |-> TRUE, value |-> FALSE]

\* The body of the try of Dilithium.verify.  A string publicKey: the key is the
\* public half of the pair generateKeyPairSync returns (verifyKey); any other is
\* handed to createPublicKey as DER, which throws for a value that came out of
\* JSON.parse.  Buffer.from(message) throws for a message that is no string.
\* crypto.verify returns false for a signature that is not one.
VerifyBody(message, signature, publicKey, verifyKey) ==
  IF publicKey = Undefined \/ message = Undefined
    THEN Throws
    ELSE Returns(/\ signature # Malformed
                 /\ signature.msg = message
                 /\ signature.key = verifyKey)

\* Mutant of VerifyCatch: the exception leaves Dilithium.verify.
VerifyRethrow(body) == body

\* The catch of Dilithium.verify: console.error, return false.
VerifyCatch(body) == IF body.threw THEN Returns(FALSE) ELSE body

\* Dilithium.verify(message, signature, publicKey).  A string publicKey: the
\* key is the public half of the pair generateKeyPairSync returns (verifyKey).
\* Anything else is handed to createPublicKey as DER, which throws for a value
\* that came out of JSON.parse; the catch returns false.
DilithiumVerify(message, signature, publicKey, verifyKey) ==
  VerifyCatch(VerifyBody(message, signature, publicKey, verifyKey))

\* The boolean Dilithium.verify hands to its caller.
Verify(message, signature, publicKey, verifyKey) ==
  DilithiumVerify(message, signature, publicKey, verifyKey).value

\* SecureTunnelNode.verifySignature
VerifySignature(challenge, signature, publicKey, verifyKey) ==
  Verify(challenge, signature, publicKey, verifyKey)

\* ------------------------------------------------------------- JSON
\* The properties of a request object.
MessageFields ==
  {"type", "walletAddress", "challenge", "signature", "sessionId", "vaultCid",
   "appId"}

\* The properties a request may lack.
OptionalFields == MessageFields \ {"type", "signature"}

\* Mutant of Stringify: the text lacks the sessionId.
StringifyLossy(message) ==
  [f \in {g \in DOMAIN message :
            /\ g # "sessionId"
            /\ g \notin OptionalFields \/ message[g] # Undefined} |-> message[f]]

\* JSON.stringify(message): the text holds the properties that have a value; a
\* property that is undefined is left out.
Stringify(message) ==
  [f \in {g \in DOMAIN message :
            g \notin OptionalFields \/ message[g] # Undefined} |-> message[f]]

\* JSON.parse(text), read property by property: a property the text lacks
\* reads as undefined.
Parse(text) ==
  [f \in MessageFields |-> IF f \in DOMAIN text THEN text[f] ELSE Undefined]

\* ------------------------------------------------------------- AES-GCM
\* The ciphertext of cipher.update + cipher.final: determined by the plaintext,
\* the key and the iv, and a different one when any of them is different.
Cipher(text, key, iv) == [text |-> text, key |-> key, iv |-> iv]

\* The GCM tag over a ciphertext under a key and an iv.  cipher.getAuthTag()
\* returns it whole (16 bytes); "truncated" is a prefix of it setAuthTag takes
\* (4, 8, 12 to 15 bytes).
Tag(key, iv, encrypted, length) ==
  [key |-> key, iv |-> iv, encrypted |-> encrypted, length |-> length]

\* Mutant of EncryptMessage: the iv is a constant of the node.
EncryptMessageFixedIv(message, key, iv) ==
  LET fixed == CHOOSE i \in 1..MaxIv : TRUE
      encrypted == Cipher(Stringify(message), key, fixed)
  IN  [iv |-> fixed, encrypted |-> encrypted,
       authTag |-> Tag(key, fixed, encrypted, "whole")]

\* _encryptMessage(message, key): iv is what crypto.randomBytes(12) returns.
EncryptMessage(message, key, iv) ==
  LET encrypted == Cipher(Stringify(message), key, iv)
  IN  [iv |-> iv, encrypted |-> encrypted,
       authTag |-> Tag(key, iv, encrypted, "whole")]

\* Mutant of DecryptOk: decipher.final() never throws.
DecryptUnchecked(encryptedMessage, key) == TRUE

\* Whether _decryptMessage(encryptedMessage, key) returns: decipher.final()
\* throws unless the bytes given to setAuthTag are the start of the tag of the
\* ciphertext under the key and the iv.  createDecipheriv is given no
\* authTagLength, so a tag of any valid length is compared.  JSON.parse throws
\* on the bytes a ciphertext of another key or iv decrypts to.
DecryptOk(encryptedMessage, key) ==
  /\ encryptedMessage.authTag.key = key
  /\ encryptedMessage.authTag.iv = encryptedMessage.iv
  /\ encryptedMessage.authTag.encrypted = encryptedMessage.encrypted
  /\ encryptedMessage.encrypted.key = key
  /\ encryptedMessage.encrypted.iv = encryptedMessage.iv

\* What _decryptMessage(encryptedMessage, key) returns when it returns.
DecryptMessage(encryptedMessage, key) == Parse(encryptedMessage.encrypted.text)

\* ------------------------------------------------------------- messages
\* A decrypted request: JSON.parse of the plaintext.  Fields a message type
\* does not carry are Undefined.
Message(t, walletAddress, challenge, signature, sessionId, vaultCid, appId) ==
  [type |-> t, walletAddress |-> walletAddress, challenge |-> challenge,
   signature |-> signature, sessionId |-> sessionId, vaultCid |-> vaultCid,
   appId |-> appId]

NoMessage ==
  Message("none", Undefined, Undefined, Malformed, Undefined, Undefined, Undefined)

AuthMessages ==
  {Message("auth", w, c, s, Undefined, Undefined, Undefined) :
     w \in Addresses \cup {Undefined}, c \in Challenges, s \in Signatures}

VaultDecryptMessages ==
  {Message("vault_decrypt", Undefined, Undefined, Malformed, i, v, Undefined) :
     i \in SessionIds \cup {Undefined}, v \in Cids}

SSOLoginMessages ==
  {Message("sso_login", Undefined, Undefined, Malformed, i, Undefined, Undefined) :
     i \in SessionIds \cup {Undefined}}

AppTokenMessages ==
  {Message("app_token", Undefined, Undefined, Malformed, i, Undefined, 1) :
     i \in SessionIds \cup {Undefined}}

UnknownMessages ==
  {Message("other", Undefined, Undefined, Malformed, Undefined, Undefined, Undefined)}

RequestTypes == {"vault_decrypt", "sso_login", "app_token"}

\* A response object.  vaultData names the vault whose bytes are returned,
\* merkleRoots the principal whose identity record they come from, token the
\* principal (sso_login) or application (app_token) the token was issued for.
Response(success, error, sessionId, vaultData, merkleRoots, token) ==
  [success |-> success, error |-> error, sessionId |-> sessionId,
   vaultData |-> vaultData, merkleRoots |-> merkleRoots, token |-> token]

ErrorResponse(error) ==
  Response(FALSE, error, Undefined, Undefined, Undefined, Undefined)

NoResponse == Response(FALSE, "no response", Undefined, Undefined, Undefined, Undefined)

\* ------------------------------------------------------------- collaborators
\* One invocation of a collaborator by a handler.
Call(op, arg) == [op |-> op, arg |-> arg]

\* What the collaborators answer in one round: didManager.getIdentity returns an
\* active identity, an inactive one, null, or throws; the others return or throw.
\* "hangs": the promise the handler awaits is never settled.
Outcomes ==
  [identity : {"active", "inactive", "null", "throws", "hangs"},
   fetch : {"ok", "throws", "hangs"}, login : {"ok", "throws", "hangs"},
   appToken : {"ok", "throws", "hangs"}]

DefaultOutcome ==
  [identity |-> "active", fetch |-> "ok", login |-> "ok", appToken |-> "ok"]

\* What one round draws at random: the key pair generateKeyPairSync returns in
\* Dilithium.verify, and crypto.randomBytes(16) for the session id.
Draws == [verifyKey : Keys, sessionId : SessionIds]

DefaultDraw == [verifyKey |-> 1, sessionId |-> 1]

\* ------------------------------------------------------------- handlers
\* The result of a handler: the response, TunnelService.sessions afterwards,
\* and the collaborator calls it made.
Result(resp, sess, calls) == [resp |-> resp, sessions |-> sess, calls |-> calls]

\* Mutant of Fail: the catch writes no response.
FailUnanswered(error, calls) ==
  [resp |-> NoResponse, sessions |-> sessions, calls |-> calls]

\* throw new Error(error) caught by the handler's own catch.
Fail(error, calls) == Result(ErrorResponse(error), sessions, calls)

\* The handler awaits a collaborator that never answers: it neither returns nor
\* throws, so no response comes out of it.
Hang(calls) == Result(NoResponse, sessions, calls)

\* The challenges the node has issued to a peer.  The node has no operation
\* that issues one: connectToMiddleware draws the challenge on the wallet
\* (crypto.randomBytes(32)) and sends it inside the Authenticate itself.
IssuedChallenges(peerId) == {}

\* Mutant of HandleAuth: sessions.set moved in front of the signature check.
HandleAuthStoreFirst(peerId, message, draw) ==
  IF type # "middleware"
    THEN Fail("Only middleware nodes can handle authentication", {})
  ELSE LET stored == MapSet(sessions, peerId,
                            [walletAddress |-> message.walletAddress,
                             sessionId |-> draw.sessionId])
       IN  IF ~VerifySignature(message.challenge, message.signature,
                               message.walletAddress, draw.verifyKey)
             THEN Result(ErrorResponse("Invalid signature"), stored, {})
             ELSE Result(Response(TRUE, "", draw.sessionId, Undefined, Undefined,
                                  Undefined),
                         stored, {})

\* Mutant of HandleAuth: the record of a peer that has one is kept.
HandleAuthKeepFirst(peerId, message, draw) ==
  IF type # "middleware"
    THEN Fail("Only middleware nodes can handle authentication", {})
  ELSE IF ~VerifySignature(message.challenge, message.signature,
                           message.walletAddress, draw.verifyKey)
    THEN Fail("Invalid signature", {})
  ELSE Result(Response(TRUE, "", draw.sessionId, Undefined, Undefined, Undefined),
              IF MapHas(sessions, peerId)
                THEN sessions
                ELSE MapSet(sessions, peerId,
                            [walletAddress |-> message.walletAddress,
                             sessionId |-> draw.sessionId]),
              {})

\* _handleAuth(peerId, message)
HandleAuth(peerId, message, draw) ==
  IF type # "middleware"
    THEN Fail("Only middleware nodes can handle authentication", {})
  ELSE IF ~VerifySignature(message.challenge, message.signature,
                           message.walletAddress, draw.verifyKey)
    THEN Fail("Invalid signature", {})
  ELSE Result(Response(TRUE, "", draw.sessionId, Undefined, Undefined, Undefined),
              MapSet(sessions, peerId,
                     [walletAddress |-> message.walletAddress,
                      sessionId |-> draw.sessionId]),
              {})

\* Mutant of SessionValid: the token is looked up among the tokens of all peers.
SessionKnown(peerId, sessionId) ==
  /\ MapHas(sessions, peerId)
  /\ \E q \in DOMAIN sessions : sessions[q].sessionId = sessionId

\* Mutant of SessionValid: the token comparison is left out.
SessionPresent(peerId, sessionId) == MapHas(sessions, peerId)

\* The session check of the three request handlers:
\* if (!session || session.sessionId !== sessionId) throw 'Invalid session'
SessionValid(peerId, sessionId) ==
  /\ MapHas(sessions, peerId)
  /\ sessions[peerId].sessionId = sessionId

\* Mutant of HandleVaultDecrypt: the session is used up by a request served.
HandleVaultDecryptOnce(peerId, message, out) ==
  IF type # "middleware"
    THEN Fail("Only middleware nodes can handle vault decryption", {})
  ELSE IF ~SessionValid(peerId, message.sessionId)
    THEN Fail("Invalid session", {})
  ELSE LET session == sessions[peerId]
           c1 == {Call("getIdentity", session.walletAddress)}
           c2 == c1 \cup {Call("fetchFromIPFS", message.vaultCid)}
       IN  IF out.identity = "hangs" THEN Hang(c1)
           ELSE IF out.identity = "throws" THEN Fail("getIdentity failed", c1)
           ELSE IF out.identity \in {"null", "inactive"}
             THEN Fail("Identity not found or inactive", c1)
           ELSE IF out.fetch = "hangs" THEN Hang(c2)
           ELSE IF out.fetch = "throws" THEN Fail("fetchFromIPFS failed", c2)
           ELSE Result(Response(TRUE, "", Undefined, message.vaultCid,
                                session.walletAddress, Undefined),
                       MapDelete(sessions, peerId), c2)

\* Mutant of HandleVaultDecrypt: the session check is left out.
HandleVaultDecryptUnchecked(peerId, message, out) ==
  IF type # "middleware"
    THEN Fail("Only middleware nodes can handle vault decryption", {})
  ELSE LET principal == IF MapHas(sessions, peerId)
                          THEN sessions[peerId].walletAddress ELSE Undefined
           c1 == {Call("getIdentity", principal)}
           c2 == c1 \cup {Call("fetchFromIPFS", message.vaultCid)}
       IN  IF out.identity = "hangs" THEN Hang(c1)
           ELSE IF out.identity = "throws" THEN Fail("getIdentity failed", c1)
           ELSE IF out.identity \in {"null", "inactive"}
             THEN Fail("Identity not found or inactive", c1)
           ELSE IF out.fetch = "hangs" THEN Hang(c2)
           ELSE IF out.fetch = "throws" THEN Fail("fetchFromIPFS failed", c2)
           ELSE Result(Response(TRUE, "", Undefined, message.vaultCid,
                                principal, Undefined),
                       sessions, c2)

\* Mutant of HandleVaultDecrypt: storage is read before the identity is looked at.
HandleVaultDecryptFetchFirst(peerId, message, out) ==
  IF type # "middleware"
    THEN Fail("Only middleware nodes can handle vault decryption", {})
  ELSE IF ~SessionValid(peerId, message.sessionId)
    THEN Fail("Invalid session", {})
  ELSE LET session == sessions[peerId]
           c1 == {Call("getIdentity", session.walletAddress)}
           c2 == c1 \cup {Call("fetchFromIPFS", message.vaultCid)}
       IN  IF out.identity = "hangs" THEN Hang(c1)
           ELSE IF out.identity = "throws" THEN Fail("getIdentity failed", c1)
           ELSE IF out.fetch = "hangs" THEN Hang(c2)
           ELSE IF out.fetch = "throws" THEN Fail("fetchFromIPFS failed", c2)
           ELSE IF out.identity \in {"null", "inactive"}
             THEN Fail("Identity not found or inactive", c2)
           ELSE Result(Response(TRUE, "", Undefined, message.vaultCid,
                                session.walletAddress, Undefined),
                       sessions, c2)

\* Mutant of HandleVaultDecrypt: the check of the node type is left out.
HandleVaultDecryptAnyType(peerId, message, out) ==
  IF ~SessionValid(peerId, message.sessionId)
    THEN Fail("Invalid session", {})
  ELSE LET session == sessions[peerId]
           c1 == {Call("getIdentity", session.walletAddress)}
           c2 == c1 \cup {Call("fetchFromIPFS", message.vaultCid)}
       IN  IF out.identity = "hangs" THEN Hang(c1)
           ELSE IF out.identity = "throws" THEN Fail("getIdentity failed", c1)
           ELSE IF out.identity \in {"null", "inactive"}
             THEN Fail("Identity not found or inactive", c1)
           ELSE IF out.fetch = "hangs" THEN Hang(c2)
           ELSE IF out.fetch = "throws" THEN Fail("fetchFromIPFS failed", c2)
           ELSE Result(Response(TRUE, "", Undefined, message.vaultCid,
                                session.walletAddress, Undefined),
                       sessions, c2)

\* _handleVaultDecrypt(peerId, message)
HandleVaultDecrypt(peerId, message, out) ==
  IF type # "middleware"
    THEN Fail("Only middleware nodes can handle vault decryption", {})
  ELSE IF ~SessionValid(peerId, message.sessionId)
    THEN Fail("Invalid session", {})
  ELSE LET session == sessions[peerId]
           c1 == {Call("getIdentity", session.walletAddress)}
           c2 == c1 \cup {Call("fetchFromIPFS", message.vaultCid)}
       IN  IF out.identity = "hangs" THEN Hang(c1)
           ELSE IF out.identity = "throws" THEN Fail("getIdentity failed", c1)
           ELSE IF out.identity \in {"null", "inactive"}
             THEN Fail("Identity not found or inactive", c1)
           ELSE IF out.fetch = "hangs" THEN Hang(c2)
           ELSE IF out.fetch = "throws" THEN Fail("fetchFromIPFS failed", c2)
           ELSE Result(Response(TRUE, "", Undefined, message.vaultCid,
                                session.walletAddress, Undefined),
                       sessions, c2)

\* Mutant of HandleSSOLogin: the login is made for the wallet address the
\* request names, when it names one.
HandleSSOLoginAsNamed(peerId, message, out) ==
  IF type # "middleware"
    THEN Fail("Only middleware nodes can handle SSO login", {})
  ELSE IF ~SessionValid(peerId, message.sessionId)
    THEN Fail("Invalid session", {})
  ELSE LET session == sessions[peerId]
           principal == IF message.walletAddress # Undefined
                          THEN message.walletAddress ELSE session.walletAddress
           c1 == {Call("login", principal)}
       IN  IF out.login = "hangs" THEN Hang(c1)
           ELSE IF out.login = "throws" THEN Fail("login failed", c1)
           ELSE Result(Response(TRUE, "", Undefined, Undefined, Undefined,
                                principal),
                       sessions, c1)

\* _handleSSOLogin(peerId, message)
HandleSSOLogin(peerId, message, out) ==
  IF type # "middleware"
    THEN Fail("Only middleware nodes can handle SSO login", {})
  ELSE IF ~SessionValid(peerId, message.sessionId)
    THEN Fail("Invalid session", {})
  ELSE LET session == sessions[peerId]
           c1 == {Call("login", session.walletAddress)}
       IN  IF out.login = "hangs" THEN Hang(c1)
           ELSE IF out.login = "throws" THEN Fail("login failed", c1)
           ELSE Result(Response(TRUE, "", Undefined, Undefined, Undefined,
                                session.walletAddress),
                       sessions, c1)

\* _handleAppToken(peerId, message)
HandleAppToken(peerId, message, out) ==
  IF type # "middleware"
    THEN Fail("Only middleware nodes can handle app token requests", {})
  ELSE IF ~SessionValid(peerId, message.sessionId)
    THEN Fail("Invalid session", {})
  ELSE LET c1 == {Call("getAppToken", message.appId)}
       IN  IF out.appToken = "hangs" THEN Hang(c1)
           ELSE IF out.appToken = "throws" THEN Fail("getAppToken failed", c1)
           ELSE Result(Response(TRUE, "", Undefined, Undefined, Undefined,
                                message.appId),
                       sessions, c1)

\* _handleMessage(peerId, message): the switch on message.type
HandleMessage(peerId, message, draw, out) ==
  CASE message.type = "auth" -> HandleAuth(peerId, message, draw)
    [] message.type = "vault_decrypt" -> HandleVaultDecrypt(peerId, message, out)
    [] message.type = "sso_login" -> HandleSSOLogin(peerId, message, out)
    [] message.type = "app_token" -> HandleAppToken(peerId, message, out)
    [] OTHER -> Fail("Unknown message type", {})

\* ------------------------------------------------------------- the node
\* The record of one _handleStream round: the peer, whether the envelope
\* opened, the request and the response, the collaborator calls made, whether
\* TunnelService.sessions changed, and two facts about the round before it:
\* replay, the request is the one this peer's previous round answered with success;
\* afterFail, this peer's previous round was an Authenticate answered with an error;
\* and overlap, the request was read while an earlier request of the peer was
\* still with its handler.
Round(peerId, opened, message, resp, calls, changed, replay, afterFail, overlap) ==
  [peer |-> peerId, opened |-> opened, msg |-> message, resp |-> resp,
   calls |-> calls, changed |-> changed, replay |-> replay, afterFail |-> afterFail,
   overlap |-> overlap]

NoRound ==
  Round(Undefined, FALSE, NoMessage, NoResponse, {}, FALSE, FALSE, FALSE, FALSE)

\* ------------------------------------------------------------- the holder side
\* The calls of connectToMiddleware and of the request* methods the node can
\* have running at once.
MaxCalls == 2

CallIds == 1..MaxCalls

\* The requests that can stand written and unanswered on the streams to a peer.
MaxWire == 2

Regions == {"EU", "US"}

\* TunnelService.middlewarePeers: process.env.EU_MIDDLEWARE_PEER_ID is set to
\* the id of a relay, process.env.US_MIDDLEWARE_PEER_ID is not set ('').
MiddlewarePeers ==
  [r \in Regions |-> IF r = "EU" THEN CHOOSE p \in Peers : TRUE ELSE Undefined]

\* A call slot with no call in it.  pc is the await the call stands at:
\* "dial" (connectToPeer), "newStream" (connection.newStream in sendMessage),
\* "read" (_readFromStream), "got" (the read has resolved), "broken" (the
\* stream of the read ended with the connection).  stale: the connection
\* record the call took its streams map from has been replaced.  own: the
\* response the read resolved with answers the request the call wrote.
\* rank: the place of the call among the reads one 'data' event resolved, in
\* the order in which they were registered.
IdleCall ==
  [op |-> "none", peer |-> Undefined, pc |-> "idle", msg |-> NoMessage,
   stream |-> Undefined, stale |-> FALSE, resp |-> NoResponse, own |-> TRUE,
   wrote |-> FALSE, rank |-> 0]

\* What the latest step did, when it ended a call: the call returned (ok) or
\* threw (error), whether it wrote a request, and whether the response it read
\* answers that request.
Done(call, ok, error) ==
  [op |-> call.op, ok |-> ok, error |-> error, own |-> call.own,
   wrote |-> call.wrote]

NoDone == Done(IdleCall, FALSE, "")

\* No call made yet: stream[p] is streams.get('/sovereign-did/1.0') of the
\* connection record of p, wire[p] the requests written to p and not answered,
\* relay[p] the sessionId of the record relay p holds for the node.
NoHolder ==
  [call |-> [c \in CallIds |-> IdleCall],
   stream |-> [p \in Peers |-> Undefined],
   wire |-> [p \in Peers |-> <<>>],
   relay |-> [p \in Peers |-> Undefined],
   done |-> NoDone]

\* Mutant of Disconnected: what was written and not answered is kept for the
\* next connection.
DisconnectedResend(peers) ==
  [holder EXCEPT
     !.call = [c \in CallIds |->
                 IF holder.call[c].peer \in peers
                      /\ holder.call[c].pc \in {"newStream", "read"}
                   THEN [holder.call[c] EXCEPT !.pc = "broken"]
                   ELSE holder.call[c]],
     !.stream = [p \in Peers |-> IF p \in peers THEN Undefined ELSE holder.stream[p]],
     !.done = NoDone]

\* The connections to the given peers end: their records go with the streams
\* in them, what was written on the streams is gone, and the calls that await
\* a stream or a response on one are left with a stream that ended.
Disconnected(peers) ==
  [holder EXCEPT
     !.call = [c \in CallIds |->
                 IF holder.call[c].peer \in peers
                      /\ holder.call[c].pc \in {"newStream", "read"}
                   THEN [holder.call[c] EXCEPT !.pc = "broken"]
                   ELSE holder.call[c]],
     !.stream = [p \in Peers |-> IF p \in peers THEN Undefined ELSE holder.stream[p]],
     !.wire = [p \in Peers |-> IF p \in peers THEN <<>> ELSE holder.wire[p]],
     !.done = NoDone]

\* No call of a cryptographic function on its own yet.
NoCall == [op |-> "none"]

Init ==
  /\ type \in {"middleware", "wallet"}
  /\ link = [p \in Peers |-> FALSE]
  /\ connections = EmptyMap
  /\ peerConnections = EmptyMap
  /\ reading = [p \in Peers |-> FALSE]
  /\ sessions = EmptyMap
  /\ last = NoRound
  /\ everAuth = {}
  /\ authenticated = {}
  /\ pending = {}
  /\ kx = [p \in Peers |-> EmptyMap]
  /\ streams = [p \in Peers |-> EmptyMap]
  /\ dialer = [p \in Peers |-> "idle"]
  /\ fn = NoCall
  /\ holder = NoHolder

\* connectToPeer on peer p's node: dial, key exchange, connections.set.
ConnectToPeer(peerId, ownShare, peerShare) ==
  /\ link' = [link EXCEPT ![peerId] = TRUE]
  /\ peerConnections' =
       MapSet(peerConnections, peerId, PerformKeyExchange(ownShare, peerShare))

\* _handleProtocol on the node for a peer it has no connection record of: key
\* exchange, connections.set, the stream is stored and _handleStream started.
HandleProtocolNewPeer(peerId, ownShare, peerShare) ==
  /\ ~MapHas(connections, peerId)
  /\ connections' =
       MapSet(connections, peerId, PerformKeyExchange(ownShare, peerShare))
  /\ reading' = [reading EXCEPT ![peerId] = TRUE]

\* A completed key exchange: the two _performKeyExchange runs answer each other
\* on the key-exchange sub-channel; each side draws its own share.
KeyExchange(peerId, peerShare, nodeShare) ==
  /\ ConnectToPeer(peerId, peerShare, nodeShare)
  /\ HandleProtocolNewPeer(peerId, nodeShare, peerShare)
  /\ last' = NoRound
  /\ UNCHANGED <<fn, holder, type, sessions, everAuth, authenticated, pending, hsVars>>

\* _handleProtocol for a peer the node has a connection record of: a further
\* protocol stream, no key exchange, _handleStream started on it.
HandleProtocol(peerId) ==
  /\ link[peerId]
  /\ MapHas(connections, peerId)
  /\ ~reading[peerId]
  /\ reading' = [reading EXCEPT ![peerId] = TRUE]
  /\ last' = NoRound
  /\ UNCHANGED <<fn, holder, type, link, connections, peerConnections, sessions,
                 everAuth, authenticated, pending, hsVars>>

\* Mutant of PeerDisconnect: the listener clears the whole map.
PeerDisconnectAll(peerId) ==
  /\ link[peerId]
  /\ link' = [link EXCEPT ![peerId] = FALSE]
  /\ connections' = EmptyMap
  /\ peerConnections' = MapDelete(peerConnections, peerId)
  /\ reading' = [reading EXCEPT ![peerId] = FALSE]
  /\ authenticated' = authenticated \ {peerId}
  /\ pending' = pending \ {peerId}
  /\ kx' = [kx EXCEPT ![peerId] = EmptyMap]
  /\ streams' = [streams EXCEPT ![peerId] = EmptyMap]
  /\ dialer' = [dialer EXCEPT ![peerId] = "idle"]
  /\ last' = NoRound
  /\ holder' = Disconnected({peerId})
  /\ UNCHANGED <<fn, type, sessions, everAuth>>

\* The 'peer:disconnect' listener, on both nodes: connections.delete(peer).
\* The streams of the connection end, and with them the _handleStream loops
\* and the requests read from them.
PeerDisconnect(peerId) ==
  /\ link[peerId]
  /\ link' = [link EXCEPT ![peerId] = FALSE]
  /\ connections' = MapDelete(connections, peerId)
  /\ peerConnections' = MapDelete(peerConnections, peerId)
  /\ reading' = [reading EXCEPT ![peerId] = FALSE]
  /\ authenticated' = authenticated \ {peerId}
  /\ pending' = pending \ {peerId}
  /\ kx' = [kx EXCEPT ![peerId] = EmptyMap]
  /\ streams' = [streams EXCEPT ![peerId] = EmptyMap]
  /\ dialer' = [dialer EXCEPT ![peerId] = "idle"]
  /\ last' = NoRound
  /\ holder' = Disconnected({peerId})
  /\ UNCHANGED <<fn, type, sessions, everAuth>>

\* stop() of TunnelService and of SecureTunnelNode: node.stop() closes every
\* connection, and the 'peer:disconnect' listener runs for each peer.  No
\* statement of either stop touches TunnelService.sessions.  The node can be
\* started again.
Stop ==
  /\ link' = [p \in Peers |-> FALSE]
  /\ connections' = EmptyMap
  /\ peerConnections' = EmptyMap
  /\ reading' = [p \in Peers |-> FALSE]
  /\ authenticated' = {}
  /\ pending' = {}
  /\ kx' = [p \in Peers |-> EmptyMap]
  /\ streams' = [p \in Peers |-> EmptyMap]
  /\ dialer' = [p \in Peers |-> "idle"]
  /\ last' = NoRound
  /\ holder' = Disconnected(Peers)
  /\ UNCHANGED <<fn, type, sessions, everAuth>>

\* Mutant of ContinueReading: the loop ends after an error response.
ContinueOnSuccess(opened, resp) == opened /\ resp.success

\* Whether _handleStream calls itself again: after the response is written
\* (line 326); an exception ends in the catch, which only logs, and a handler
\* that does not return keeps the loop at its await.
ContinueReading(opened, resp) == opened /\ resp # NoResponse

\* The end of a round of _handleStream: r is what the handler came to.  The
\* response is encrypted and written, and the loop reads on.
HandleStreamResponse(peerId, opened, message, r) ==
  LET authOk == opened /\ message.type = "auth" /\ r.resp.success
      before == last.opened /\ last.peer = peerId /\ last.msg.type = "auth"
  IN  /\ sessions' = r.sessions
      /\ reading' = [reading EXCEPT ![peerId] = ContinueReading(opened, r.resp)]
      /\ last' = Round(peerId, opened, message, r.resp, r.calls,
                       r.sessions # sessions,
                       /\ last.opened /\ last.peer = peerId
                       /\ last.resp.success /\ last.msg = message,
                       before /\ ~last.resp.success /\ message.type = "auth",
                       peerId \in pending)
      /\ pending' = IF opened /\ r.resp = NoResponse
                       THEN pending \cup {peerId} ELSE pending
      /\ everAuth' = IF authOk THEN everAuth \cup {peerId} ELSE everAuth
      /\ authenticated' =
           IF authOk THEN authenticated \cup {peerId} ELSE authenticated

\* The middle of a round of _handleStream: the decrypted message is given to
\* the messageHandler.
HandleStreamRequest(peerId, opened, message, draw, out) ==
  HandleStreamResponse(peerId, opened, message,
                       IF opened THEN HandleMessage(peerId, message, draw, out)
                                 ELSE Result(NoResponse, sessions, {}))

\* One round of _handleStream(peerId, stream): read an envelope, decrypt it
\* with the key of the connection record, dispatch, encrypt and write the
\* response, read on.
HandleStream(peerId, encryptedMessage, draw, out) ==
  /\ link[peerId]
  /\ reading[peerId]
  /\ LET opened == /\ MapHas(connections, peerId)
                   /\ DecryptOk(encryptedMessage, connections[peerId].sharedKey)
     IN  HandleStreamRequest(peerId, opened,
                             IF opened
                               THEN DecryptMessage(encryptedMessage,
                                                   connections[peerId].sharedKey)
                               ELSE NoMessage,
                             draw, out)
  /\ UNCHANGED <<fn, holder, type, link, connections, peerConnections, hsVars>>

\* A key that no exchange of the connection derived.
ForeignKey == <<Undefined, Undefined>>

\* The keys a remote peer seals an envelope with: the one its own node derived,
\* the one the node derived (the peer knows both shares), or any other.
SenderKeys(peerId) ==
  {ForeignKey}
    \cup (IF MapHas(connections, peerId)
            THEN {connections[peerId].sharedKey} ELSE {})
    \cup (IF MapHas(peerConnections, peerId)
            THEN {peerConnections[peerId].sharedKey} ELSE {})

\* The iv of the envelopes of the rounds: a round does not depend on it.
AnyIv == CHOOSE iv \in Ivs : TRUE

\* An envelope the node cannot open.
Unreadable(peerId) ==
  {EncryptMessage(NoMessage, k, AnyIv) :
     k \in {x \in SenderKeys(peerId) :
              ~MapHas(connections, peerId) \/ x # connections[peerId].sharedKey}}

\* A _handleStream loop is reading from the peer, with a key to open what it
\* reads.
Reads(peerId) == link[peerId] /\ reading[peerId] /\ MapHas(connections, peerId)

\* The envelope of a message that opens under the node's key.
Readable(peerId, message) ==
  EncryptMessage(message, connections[peerId].sharedKey, AnyIv)

\* The draws that matter to a round: the session id is drawn only when the
\* signature verifies, and every key pair under which it does not verify
\* gives the same round.
AuthDraws(message) ==
  LET verifying == {k \in Keys : VerifySignature(message.challenge, message.signature,
                                                 message.walletAddress, k)}
  IN  {d \in Draws : d.verifyKey \in verifying}
        \cup (IF verifying = Keys THEN {}
              ELSE {[verifyKey |-> CHOOSE k \in Keys \ verifying : TRUE,
                     sessionId |-> DefaultDraw.sessionId]})

\* The collaborator outcomes that matter to a round: a collaborator answers
\* only when it is called.
VaultOutcomes(peerId, message) ==
  IF ~SessionValid(peerId, message.sessionId) THEN {DefaultOutcome}
  ELSE {[DefaultOutcome EXCEPT !.identity = i] :
          i \in {"active", "inactive", "null", "throws", "hangs"}}
       \cup {[DefaultOutcome EXCEPT !.fetch = f] : f \in {"ok", "throws", "hangs"}}

SSOOutcomes(peerId, message) ==
  IF ~SessionValid(peerId, message.sessionId) THEN {DefaultOutcome}
  ELSE {[DefaultOutcome EXCEPT !.login = l] : l \in {"ok", "throws", "hangs"}}

AppOutcomes(peerId, message) ==
  IF ~SessionValid(peerId, message.sessionId) THEN {DefaultOutcome}
  ELSE {[DefaultOutcome EXCEPT !.appToken = t] : t \in {"ok", "throws", "hangs"}}

RoundAuth(p) ==
  /\ Reads(p)
  /\ \E m \in AuthMessages : \E d \in AuthDraws(m) :
       HandleStream(p, Readable(p, m), d, DefaultOutcome)

RoundVaultDecrypt(p) ==
  /\ Reads(p)
  /\ \E m \in VaultDecryptMessages : \E o \in VaultOutcomes(p, m) :
       HandleStream(p, Readable(p, m), DefaultDraw, o)

RoundSSOLogin(p) ==
  /\ Reads(p)
  /\ \E m \in SSOLoginMessages : \E o \in SSOOutcomes(p, m) :
       HandleStream(p, Readable(p, m), DefaultDraw, o)

RoundAppToken(p) ==
  /\ Reads(p)
  /\ \E m \in AppTokenMessages : \E o \in AppOutcomes(p, m) :
       HandleStream(p, Readable(p, m), DefaultDraw, o)

RoundUnknown(p) ==
  /\ Reads(p)
  /\ \E m \in UnknownMessages :
       HandleStream(p, Readable(p, m), DefaultDraw, DefaultOutcome)

\* sendMessage(peerId, message) on peer p's node: the envelope is sealed with
\* the key of the record p's node holds for this node.
SendMessage(peerId, message, iv) ==
  EncryptMessage(message, peerConnections[peerId].sharedKey, iv)

\* The messages the runs that explore the key exchange send.
SentMessages == UnknownMessages \cup VaultDecryptMessages

RoundSendMessage(p) ==
  /\ link[p]
  /\ reading[p]
  /\ MapHas(peerConnections, p)
  /\ \E m \in SentMessages :
       HandleStream(p, SendMessage(p, m, AnyIv), DefaultDraw, DefaultOutcome)

RoundUnreadable(p) ==
  \E e \in Unreadable(p) : HandleStream(p, e, DefaultDraw, DefaultOutcome)

Rounds(p) ==
  \/ RoundAuth(p)
  \/ RoundVaultDecrypt(p)
  \/ RoundSSOLogin(p)
  \/ RoundAppToken(p)
  \/ RoundUnknown(p)
  \/ RoundUnreadable(p)

Next ==
  \/ \E p \in Peers, a \in Shares, b \in Shares : KeyExchange(p, a, b)
  \/ \E p \in Peers : HandleProtocol(p)
  \/ \E p \in Peers : PeerDisconnect(p)
  \/ \E p \in Peers : Rounds(p)
  \/ Stop

Spec == Init /\ [][Next]_vars

\* The runs that explore the key exchange: the shares range over KxShares.
NextKx ==
  \/ \E p \in Peers, a \in KxShares, b \in KxShares : KeyExchange(p, a, b)
  \/ \E p \in Peers : HandleProtocol(p)
  \/ \E p \in Peers : PeerDisconnect(p)
  \/ \E p \in Peers : RoundUnknown(p) \/ RoundUnreadable(p)
  \/ \E p \in Peers : RoundSendMessage(p)

SpecKx == Init /\ [][NextKx]_vars

\* Spec with every step that can be taken eventually taken.
FairSpec == Spec /\ WF_vars(Next)

\* ------------------------------------------------- the handshake, await by await
\* The protocols the node registers a handler for (initialize: node.handle).
Protocols == {"/sovereign-did/1.0"}

\* The protocol _performKeyExchange opens its sub-channel with.
KeyExchangeProtocol == "/sovereign-did/key-exchange/1.0"

\* connection.newStream(protocol) towards a node that runs this code: the
\* stream is negotiated when that node handles the protocol; otherwise the
\* call rejects.
NewStream(protocol) == protocol \in Protocols

\* Bytes that are no share a peer drew.
Garbage == MaxKxShare + 1

\* What arrives as the peer's encapsulated key: the blob encapsulate made for
\* a share, intact or altered.
Blobs == [share : Shares, intact : BOOLEAN]

\* Kyber.decapsulate(encapsulatedKey, privateKey): AES-256-CBC under the ECDH
\* key, no integrity check.  An intact blob gives the share it was made for.
\* An altered one makes computeSecret or decipher.final() throw, or, when the
\* padding block still decrypts to valid padding (an altered iv or first cipher
\* block), comes back with other bytes.
Decapsulate(encapsulatedKey, padding) ==
  IF encapsulatedKey.intact
    THEN [ok |-> TRUE, sharedSecret |-> encapsulatedKey.share]
  ELSE IF padding THEN [ok |-> TRUE, sharedSecret |-> Garbage]
  ELSE [ok |-> FALSE, sharedSecret |-> Undefined]

\* A connection from a remote peer comes up ('peer:connect').
PeerConnect(peerId) ==
  /\ ~link[peerId]
  /\ link' = [link EXCEPT ![peerId] = TRUE]
  /\ last' = NoRound
  /\ UNCHANGED <<fn, holder, type, connections, peerConnections, reading, sessions,
                 everAuth, authenticated, pending, hsVars>>

\* connectToPeer on a peer that runs this code, up to the first await of
\* _performKeyExchange: node.dial, generateKeyPair, newStream requested.
Dial(peerId) ==
  /\ ~link[peerId]
  /\ dialer[peerId] = "idle"
  /\ link' = [link EXCEPT ![peerId] = TRUE]
  /\ dialer' = [dialer EXCEPT ![peerId] = "keyExchange"]
  /\ last' = NoRound
  /\ UNCHANGED <<fn, holder, type, connections, peerConnections, reading, sessions,
                 everAuth, authenticated, pending, kx, streams>>

\* connectToPeer, after the await of newStream: when the call rejects,
\* _performKeyExchange throws, connectToPeer rethrows and stores no record.
ConnectToPeerKeyExchange(peerId) ==
  /\ link[peerId]
  /\ dialer[peerId] = "keyExchange"
  /\ dialer' = [dialer EXCEPT ![peerId] =
                  IF NewStream(KeyExchangeProtocol) THEN "exchanging" ELSE "failed"]
  /\ last' = NoRound
  /\ UNCHANGED <<fn, holder, type, link, connections, peerConnections, reading, sessions,
                 everAuth, authenticated, pending, kx, streams>>

\* Mutant of HandleProtocolStart: _handleStream is started before the key
\* exchange of a new peer has completed.
HandleProtocolStartEager(peerId, stream) ==
  /\ link[peerId]
  /\ dialer[peerId] = "idle"
  /\ ~MapHas(kx[peerId], stream)
  /\ ~MapHas(streams[peerId], stream)
  /\ IF MapHas(connections, peerId)
       THEN /\ streams' = [streams EXCEPT ![peerId] =
                             MapSet(@, stream,
                                    [key |-> connections[peerId].sharedKey,
                                     exchanged |-> FALSE])]
            /\ kx' = kx
       ELSE /\ kx' = [kx EXCEPT ![peerId] = MapSet(@, stream, "publicKey")]
            /\ streams' = streams
  /\ reading' = [reading EXCEPT ![peerId] = TRUE]
  /\ last' = NoRound
  /\ UNCHANGED <<fn, holder, type, link, connections, peerConnections, sessions,
                 everAuth, authenticated, pending, dialer>>

\* _handleProtocol({connection, stream}) up to its first await.  A peer with a
\* connection record: no key exchange, _handleStream is started on the stream.
\* A new peer: _performKeyExchange is started; it opens the sub-channel, sends
\* the public key and awaits the peer's.
HandleProtocolStart(peerId, stream) ==
  /\ link[peerId]
  /\ dialer[peerId] = "idle"
  /\ ~MapHas(kx[peerId], stream)
  /\ ~MapHas(streams[peerId], stream)
  /\ IF MapHas(connections, peerId)
       THEN /\ streams' = [streams EXCEPT ![peerId] =
                             MapSet(@, stream,
                                    [key |-> connections[peerId].sharedKey,
                                     exchanged |-> FALSE])]
            /\ reading' = [reading EXCEPT ![peerId] = TRUE]
            /\ kx' = kx
       ELSE /\ kx' = [kx EXCEPT ![peerId] = MapSet(@, stream, "publicKey")]
            /\ UNCHANGED <<streams, reading>>
  /\ last' = NoRound
  /\ UNCHANGED <<fn, holder, type, link, connections, peerConnections, sessions,
                 everAuth, authenticated, pending, dialer>>

\* _performKeyExchange, first round trip: the peer's public key arrives;
\* encapsulate, the encrypted key is sent, the peer's is awaited.
KxPublicKey(peerId, stream) ==
  /\ link[peerId]
  /\ MapHas(kx[peerId], stream)
  /\ kx[peerId][stream] = "publicKey"
  /\ kx' = [kx EXCEPT ![peerId] = MapSet(@, stream, "encryptedKey")]
  /\ last' = NoRound
  /\ UNCHANGED <<fn, holder, type, link, connections, peerConnections, reading, sessions,
                 everAuth, authenticated, pending, streams, dialer>>

\* _performKeyExchange, second round trip, and the rest of _handleProtocol:
\* the peer's encrypted key arrives and is decapsulated.  When decapsulate
\* throws, the catch of _handleProtocol logs and nothing is stored.  Otherwise
\* the combined key is stored with connections.set, whatever record the peer
\* has by then, and _handleStream is started on the stream.
KxEncryptedKey(peerId, stream, ownShare, encapsulatedKey, padding) ==
  /\ link[peerId]
  /\ MapHas(kx[peerId], stream)
  /\ kx[peerId][stream] = "encryptedKey"
  /\ kx' = [kx EXCEPT ![peerId] = MapDelete(@, stream)]
  /\ LET d == Decapsulate(encapsulatedKey, padding)
         record == PerformKeyExchange(ownShare, d.sharedSecret)
     IN  IF d.ok
           THEN /\ connections' = MapSet(connections, peerId, record)
                /\ streams' = [streams EXCEPT ![peerId] =
                                 MapSet(@, stream, [key |-> record.sharedKey,
                                                    exchanged |-> TRUE])]
                /\ reading' = [reading EXCEPT ![peerId] = TRUE]
                /\ peerConnections' =
                     IF encapsulatedKey.intact
                       THEN MapSet(peerConnections, peerId,
                                   PerformKeyExchange(encapsulatedKey.share, ownShare))
                       ELSE peerConnections
           ELSE UNCHANGED <<connections, streams, reading, peerConnections>>
  /\ last' = NoRound
  /\ UNCHANGED <<fn, holder, type, link, sessions, everAuth, authenticated, pending, dialer>>

NextHs ==
  \/ \E p \in Peers : PeerConnect(p)
  \/ \E p \in Peers : Dial(p)
  \/ \E p \in Peers : ConnectToPeerKeyExchange(p)
  \/ \E p \in Peers, s \in Streams : HandleProtocolStart(p, s)
  \/ \E p \in Peers, s \in Streams : KxPublicKey(p, s)
  \/ \E p \in Peers, s \in Streams, a \in KxShares, b \in Blobs, pad \in BOOLEAN :
       KxEncryptedKey(p, s, a, b, pad)
  \/ \E p \in Peers : PeerDisconnect(p)
  \/ \E p \in Peers : RoundUnknown(p) \/ RoundUnreadable(p)

SpecHs == Init /\ [][NextHs]_vars

\* SpecHs with every step that can be taken eventually taken.
FairSpecHs == SpecHs /\ WF_vars(NextHs)


\* ------------------------------------------- the cryptographic functions on their own
\* The messages sendMessage is given, and the keys of the connection records.
Payloads ==
  AuthMessages \cup VaultDecryptMessages \cup SSOLoginMessages
    \cup AppTokenMessages \cup UnknownMessages

SharedKeys == {CombineKeys(a, b) : a \in Shares, b \in Shares} \cup {ForeignKey}

\* The envelopes that differ from the given one in the iv, in the ciphertext
\* or in the tag (the three fields _decryptMessage reads): another iv, the
\* ciphertext of another text, the tag of another key, and the first bytes of
\* the tag.
Modified(encryptedMessage) ==
  LET c == encryptedMessage.encrypted
      t == encryptedMessage.authTag
  IN  {[encryptedMessage EXCEPT !.iv = iv] : iv \in Ivs \ {encryptedMessage.iv}}
        \cup {[encryptedMessage EXCEPT !.encrypted = Cipher(Stringify(m), c.key, c.iv)] :
                m \in {x \in UnknownMessages \cup SSOLoginMessages :
                         Stringify(x) # c.text}}
        \cup {[encryptedMessage EXCEPT !.authTag = Tag(k, t.iv, t.encrypted, "whole")] :
                k \in SharedKeys \ {t.key}}
        \cup {[encryptedMessage EXCEPT
                 !.authTag = Tag(t.key, t.iv, t.encrypted, "truncated")]}

\* _encryptMessage(message, key) called on its own: draw is what
\* crypto.randomBytes(12) returns in this call, prior the key and the draw of
\* the _encryptMessage call before it.
EncryptMessageCall(message, key, iv) ==
  /\ fn' = [op |-> "encrypt", message |-> message, key |-> key,
            envelope |-> EncryptMessage(message, key, iv), modified |-> FALSE,
            draw |-> iv,
            prior |-> IF fn.op = "encrypt"
                        THEN {[key |-> fn.key, iv |-> fn.draw]} ELSE {}]
  /\ UNCHANGED <<nodeVars, holder>>

\* The envelope is changed between _encryptMessage and _decryptMessage.
Tamper ==
  /\ fn.op = "encrypt"
  /\ ~fn.modified
  /\ \E encryptedMessage \in Modified(fn.envelope) :
       fn' = [fn EXCEPT !.envelope = encryptedMessage, !.modified = TRUE]
  /\ UNCHANGED <<nodeVars, holder>>

\* _decryptMessage(encryptedMessage, key) called on the envelope: it returns
\* the parsed message, or decipher.final() throws.
DecryptMessageCall(key) ==
  /\ fn.op = "encrypt"
  /\ fn' = [op |-> "decrypt", message |-> fn.message, sealedWith |-> fn.key,
            key |-> key, envelope |-> fn.envelope, modified |-> fn.modified,
            result |-> IF DecryptOk(fn.envelope, key)
                         THEN Returns(DecryptMessage(fn.envelope, key))
                         ELSE [threw |-> TRUE, value |-> NoMessage]]
  /\ UNCHANGED <<nodeVars, holder>>

\* _derivePeerIdFromWallet(walletKey): PeerId.createFromPrivKey of the sha256
\* of the wallet key.
DerivePeerIdFromWallet(walletKey) == [privKey |-> <<walletKey>>]

\* No earlier run of a holder.
NoRun ==
  [message |-> Undefined, walletKey |-> Undefined, signature |-> Malformed,
   peerId |-> DerivePeerIdFromWallet(Undefined)]

\* One run of a holder with a wallet key: initialize derives the peer id,
\* signChallenge(challenge, walletKey) signs with the key pair
\* generateKeyPairSync returns in Dilithium.sign (signingKey).  prior is the
\* run before this one.
SignChallenge(challenge, walletKey, signingKey) ==
  /\ fn' = [op |-> "sign", message |-> challenge, walletKey |-> walletKey,
            signature |-> Sign(challenge, signingKey),
            peerId |-> DerivePeerIdFromWallet(walletKey),
            prior |-> IF fn.op = "sign"
                        THEN [message |-> fn.message, walletKey |-> fn.walletKey,
                              signature |-> fn.signature, peerId |-> fn.peerId]
                        ELSE NoRun]
  /\ UNCHANGED <<nodeVars, holder>>

\* Dilithium.verify(message, signature, publicKey) called on its own, with
\* arguments of any kind.
VerifyCall(message, signature, publicKey, verifyKey) ==
  /\ fn' = [op |-> "verify", message |-> message, signature |-> signature,
            publicKey |-> publicKey,
            result |-> DilithiumVerify(message, signature, publicKey, verifyKey)]
  /\ UNCHANGED <<nodeVars, holder>>

NextFn ==
  \/ \E m \in Payloads, k \in SharedKeys, iv \in Ivs : EncryptMessageCall(m, k, iv)
  \/ Tamper
  \/ \E k \in SharedKeys : DecryptMessageCall(k)
  \/ \E c \in Challenges, w \in WalletKeys, k \in Keys : SignChallenge(c, w, k)
  \/ \E m \in Challenges \cup {Undefined}, s \in Signatures,
        a \in Addresses \cup {Undefined}, k \in Keys : VerifyCall(m, s, a, k)

SpecFn == Init /\ [][NextFn]_vars

\* ------------------------------------------------- the requests of several principals
\* The runs that explore the requests: the wallet addresses of the registered
\* identities, and the requests a peer can write when it names a wallet
\* address and a vault content id of its choice.
MaxPrincipal == 2

Principals == 1..MaxPrincipal

\* The vaultCid field of the identity record SovereignIdentityManager keeps
\* for a wallet: content ids are numbered after the wallet that registered
\* them, so no two identities record the same vault.
RegisteredVault(walletAddress) == walletAddress

\* The challenge of the Authenticates of these runs.
AnyChallenge == CHOOSE c \in Challenges : TRUE

NamedAuthMessages ==
  {Message("auth", w, AnyChallenge, Sign(AnyChallenge, k), Undefined, Undefined,
           Undefined) : w \in Principals, k \in Keys}

NamedVaultDecryptMessages ==
  {Message("vault_decrypt", w, Undefined, Malformed, i, RegisteredVault(v),
           Undefined) :
     w \in Principals \cup {Undefined}, i \in SessionIds, v \in Principals}

NamedSSOLoginMessages ==
  {Message("sso_login", w, Undefined, Malformed, i, Undefined, Undefined) :
     w \in Principals \cup {Undefined}, i \in SessionIds}

RoundNamedAuth(p) ==
  /\ Reads(p)
  /\ \E m \in NamedAuthMessages : \E d \in AuthDraws(m) :
       HandleStream(p, Readable(p, m), d, DefaultOutcome)

RoundNamedVaultDecrypt(p) ==
  /\ Reads(p)
  /\ \E m \in NamedVaultDecryptMessages :
       HandleStream(p, Readable(p, m), DefaultDraw, DefaultOutcome)

RoundNamedSSOLogin(p) ==
  /\ Reads(p)
  /\ \E m \in NamedSSOLoginMessages :
       HandleStream(p, Readable(p, m), DefaultDraw, DefaultOutcome)

NextReq ==
  \/ \E p \in Peers, a \in Shares, b \in Shares : KeyExchange(p, a, b)
  \/ \E p \in Peers : PeerDisconnect(p)
  \/ \E p \in Peers : RoundNamedAuth(p)
  \/ \E p \in Peers : RoundNamedVaultDecrypt(p)
  \/ \E p \in Peers : RoundNamedSSOLogin(p)

SpecReq == Init /\ [][NextReq]_vars

\* ------------------------------------------------------ the node as holder
\* The call in slot c ends: it returns (ok) or throws (error).  A request of
\* the call that is still unanswered is from then on the request of no call.
Finished(h, c, call, ok, error) ==
  [h EXCEPT
     !.call[c] = IdleCall,
     !.done = Done(call, ok, error),
     !.wire = [p \in Peers |->
                 [i \in 1..Len(h.wire[p]) |->
                    IF h.wire[p][i].call = c
                      THEN [h.wire[p][i] EXCEPT !.call = Undefined]
                      ELSE h.wire[p][i]]]]

\* sendMessage from _encryptMessage on: the request is sealed with the key of
\* the connection record and written on the stream, and _readFromStream
\* registers once('data') before anything else can run.
Written(h, c, call, stream, sharedKey) ==
  [h EXCEPT
     !.call[c] = [call EXCEPT !.pc = "read", !.stream = stream, !.wrote = TRUE],
     !.wire[call.peer] =
        Append(@, [stream |-> stream, call |-> c,
                   envelope |-> EncryptMessage(call.msg, sharedKey, AnyIv)]),
     !.done = NoDone]

\* sendMessage(peerId, message) up to its first await: without a connection
\* record it throws; with a protocol stream in the record it writes and reads;
\* without one it awaits connection.newStream.
SendMessageStart(h, c, call, conns) ==
  IF ~MapHas(conns, call.peer)
    THEN Finished(h, c, call, FALSE, "No connection to peer")
  ELSE IF h.stream[call.peer] = Undefined
    THEN [h EXCEPT !.call[c] = [call EXCEPT !.pc = "newStream"], !.done = NoDone]
  ELSE Written(h, c, call, h.stream[call.peer], conns[call.peer].sharedKey)

\* The key pair Dilithium.sign signs the challenge with.
AnyKey == CHOOSE k \in Keys : TRUE

\* No read has resolved whose call has not run on: the code after an await
\* runs before the next event is taken.
NoneResolved == \A c \in CallIds : holder.call[c].pc # "got"

\* There is room for a request on the streams to the peer.
WireRoom(p) == Len(holder.wire[p]) < MaxWire

\* The slot a new call takes: the first one with no call in it.
FreeSlot(c) ==
  /\ NoneResolved
  /\ holder.call[c].pc = "idle"
  /\ \A d \in CallIds : d < c => holder.call[d].pc # "idle"

\* connectToMiddleware(region, walletAddress, walletKey) up to its first await
\* (connectToPeer).
ConnectToMiddleware(c, region, walletAddress) ==
  /\ FreeSlot(c)
  /\ LET call == [IdleCall EXCEPT
                    !.op = "connect", !.peer = MiddlewarePeers[region],
                    !.msg = Message("auth", walletAddress, AnyChallenge,
                                    Sign(AnyChallenge, AnyKey), Undefined,
                                    Undefined, Undefined)]
     IN  holder' =
           IF type # "wallet"
             THEN Finished(holder, c, call, FALSE,
                           "Only wallet nodes can connect to middleware")
           ELSE IF MiddlewarePeers[region] = Undefined
             THEN Finished(holder, c, call, FALSE,
                           "No middleware peer ID available for region")
           ELSE [holder EXCEPT !.call[c] = [call EXCEPT !.pc = "dial"],
                               !.done = NoDone]
  /\ UNCHANGED <<nodeVars, fn>>

\* connectToPeer of a connectToMiddleware call comes back.  With a completed
\* dial and key exchange the connection record is set anew, with an empty
\* streams map, and sendMessage runs up to connection.newStream; the relay
\* keeps a record it already has.  Otherwise connectToPeer throws and so does
\* connectToMiddleware.
ConnectToPeerReturns(c, ok, ownShare, peerShare) ==
  LET call == holder.call[c]
      p == call.peer
  IN  /\ NoneResolved
      /\ call.pc = "dial"
      /\ IF ok
           THEN /\ link' = [link EXCEPT ![p] = TRUE]
                /\ connections' =
                     MapSet(connections, p, PerformKeyExchange(ownShare, peerShare))
                /\ peerConnections' =
                     IF MapHas(peerConnections, p) THEN peerConnections
                     ELSE MapSet(peerConnections, p,
                                 PerformKeyExchange(peerShare, ownShare))
                /\ holder' =
                     SendMessageStart(
                       [holder EXCEPT
                          !.stream[p] = Undefined,
                          !.call = [d \in CallIds |->
                                      IF holder.call[d].peer = p
                                           /\ holder.call[d].pc = "newStream"
                                        THEN [holder.call[d] EXCEPT !.stale = TRUE]
                                        ELSE holder.call[d]]],
                       c, call, connections')
           ELSE /\ holder' = Finished(holder, c, call, FALSE, "connectToPeer failed")
                /\ UNCHANGED <<link, connections, peerConnections>>
      /\ UNCHANGED <<fn, type, reading, sessions, last, everAuth, authenticated,
                     pending, hsVars>>

\* Array.from(this.sessions.keys())[0]: the relay of the earliest record (one
\* relay is configured).
FirstSession == CHOOSE p \in DOMAIN sessions : TRUE

\* requestVaultDecryption, requestSSOLogin and requestAppToken up to the first
\* await of sendMessage: the type check, the session lookup, the request with
\* the sessionId of the holder's record.
Request(c, op, notWallet, message) ==
  /\ FreeSlot(c)
  /\ DOMAIN sessions # {} => WireRoom(FirstSession)
  /\ holder' =
       IF type # "wallet"
         THEN Finished(holder, c, [IdleCall EXCEPT !.op = op], FALSE, notWallet)
       ELSE IF DOMAIN sessions = {}
         THEN Finished(holder, c, [IdleCall EXCEPT !.op = op], FALSE,
                       "No active middleware connection")
       ELSE SendMessageStart(
              holder, c,
              [IdleCall EXCEPT
                 !.op = op, !.peer = FirstSession,
                 !.msg = [message EXCEPT
                            !.sessionId = sessions[FirstSession].sessionId]],
              connections)
  /\ UNCHANGED <<nodeVars, fn>>

RequestVaultDecryption(c, vaultCid) ==
  Request(c, "vault_decrypt", "Only wallet nodes can request vault decryption",
          Message("vault_decrypt", Undefined, Undefined, Malformed, Undefined,
                  vaultCid, Undefined))

RequestSSOLogin(c) ==
  Request(c, "sso_login", "Only wallet nodes can request SSO login",
          Message("sso_login", Undefined, Undefined, Malformed, Undefined,
                  Undefined, Undefined))

RequestAppToken(c, appId) ==
  Request(c, "app_token", "Only wallet nodes can request app tokens",
          Message("app_token", Undefined, Undefined, Malformed, Undefined,
                  Undefined, appId))

\* The protocol streams in use on the holder side.
StreamsInUse ==
  {holder.stream[p] : p \in Peers}
    \cup {holder.call[c].stream : c \in CallIds}
    \cup UNION {{holder.wire[p][i].stream : i \in 1..Len(holder.wire[p])} : p \in Peers}

\* connection.newStream of a sendMessage call comes back: the stream is put in
\* the streams map of the record the call holds, the request is written and
\* the read registered.
NewStreamReturns(c) ==
  LET call == holder.call[c]
      free == Streams \ StreamsInUse
  IN  /\ NoneResolved
      /\ call.pc = "newStream"
      /\ free # {}
      /\ WireRoom(call.peer)
      /\ MapHas(connections, call.peer)
      /\ LET s == CHOOSE x \in free : \A y \in free : x <= y
         IN  holder' =
               Written(IF call.stale THEN holder
                       ELSE [holder EXCEPT !.stream[call.peer] = s],
                       c, call, s, connections[call.peer].sharedKey)
      /\ UNCHANGED <<nodeVars, fn>>

\* What relay p answers to a request it opened, and the token it stores for
\* the node afterwards: _handleAuth stores a new token when the signature
\* verifies; the other handlers compare the sessionId of the request with the
\* stored token and then depend on their collaborators.
RelayAnswer(p, message) ==
  IF message.type = "auth"
    THEN {[resp |-> Response(TRUE, "", t, Undefined, Undefined, Undefined),
           relay |-> t] : t \in SessionIds}
           \cup {[resp |-> ErrorResponse("Invalid signature"),
                  relay |-> holder.relay[p]]}
  ELSE IF holder.relay[p] = Undefined \/ message.sessionId # holder.relay[p]
    THEN {[resp |-> ErrorResponse("Invalid session"), relay |-> holder.relay[p]]}
  ELSE {[resp |-> Response(TRUE, "", Undefined, Undefined, Undefined, Undefined),
         relay |-> holder.relay[p]],
        [resp |-> ErrorResponse("collaborator failed"), relay |-> holder.relay[p]]}

\* The place of the request of call c among the requests written to p and
\* not answered: reads are registered in the order of the writes.
Registered(w, c) ==
  IF \E i \in 1..Len(w) : w[i].call = c
    THEN CHOOSE i \in 1..Len(w) : w[i].call = c /\ \A j \in 1..(i - 1) : w[j].call # c
    ELSE Len(w) + 1

\* The 'data' event of a response on a stream: every read registered on the
\* stream with once('data') resolves with it.  w is what stood written when
\* the relay took the request.
Delivered(h, p, w, resp) ==
  [h EXCEPT
     !.call = [c \in CallIds |->
                 IF /\ h.call[c].pc = "read"
                    /\ h.call[c].peer = p
                    /\ h.call[c].stream = Head(w).stream
                   THEN [h.call[c] EXCEPT !.pc = "got", !.resp = resp,
                                          !.own = (c = Head(w).call),
                                          !.rank = Registered(w, c)]
                   ELSE h.call[c]]]

\* _handleStream of relay p takes the earliest request written to it: it
\* opens the envelope with the key of its own record, answers, and the
\* response arrives on the stream of the request.  An envelope it cannot open
\* gets no answer.
RelayAnswers(p) ==
  /\ NoneResolved
  /\ link[p]
  /\ holder.wire[p] # <<>>
  /\ LET request == Head(holder.wire[p])
         taken == [holder EXCEPT !.wire[p] = Tail(@), !.done = NoDone]
         opened == /\ MapHas(peerConnections, p)
                   /\ DecryptOk(request.envelope, peerConnections[p].sharedKey)
     IN  IF opened
           THEN \E a \in RelayAnswer(p, DecryptMessage(request.envelope,
                                                      peerConnections[p].sharedKey)) :
                  holder' = Delivered([taken EXCEPT !.relay[p] = a.relay],
                                      p, holder.wire[p], a.resp)
           ELSE holder' = taken
  /\ UNCHANGED <<nodeVars, fn>>

\* Mutant of StoreSession: the session is recorded whatever the relay answered.
StoreSessionAlways(sess, peerId, walletAddress, authResult) ==
  MapSet(sess, peerId,
         [walletAddress |-> walletAddress, sessionId |-> authResult.sessionId])

\* The end of connectToMiddleware: if (!authResult.success) throw; otherwise
\* this.sessions.set(middlewarePeerId, {walletAddress, sessionId, ...}).
StoreSession(sess, peerId, walletAddress, authResult) ==
  IF authResult.success
    THEN MapSet(sess, peerId,
                [walletAddress |-> walletAddress,
                 sessionId |-> authResult.sessionId])
    ELSE sess

\* sendMessage returns the response its read resolved with, and the method
\* that called it ends: connectToMiddleware records the session or throws,
\* a request method returns the result or throws.
SendMessageReturns(c) ==
  LET call == holder.call[c]
  IN  /\ call.pc = "got"
      /\ \A d \in CallIds :
           holder.call[d].pc = "got" => call.rank <= holder.call[d].rank
      /\ sessions' =
           IF call.op = "connect"
             THEN StoreSession(sessions, call.peer, call.msg.walletAddress, call.resp)
             ELSE sessions
      /\ holder' = Finished(holder, c, call, call.resp.success,
                            IF call.resp.success THEN "" ELSE call.resp.error)
      /\ UNCHANGED <<fn, type, link, connections, peerConnections, reading, last,
                     everAuth, authenticated, pending, hsVars>>

\* The 'error' event of a stream that ended with its connection: the read
\* rejects and the call throws.  Nothing in the code ends a read on a stream
\* that emits no event.
StreamError(c) ==
  /\ NoneResolved
  /\ holder.call[c].pc = "broken"
  /\ holder' = Finished(holder, c, holder.call[c], FALSE, "stream error")
  /\ UNCHANGED <<nodeVars, fn>>

\* The connection to relay p ends after the relay has handled the earliest
\* request written to it and before its response has arrived: the relay keeps
\* what the handler stored, the response is lost with the stream.
ResponseLost(p) ==
  /\ NoneResolved
  /\ holder.wire[p] # <<>>
  /\ MapHas(peerConnections, p)
  /\ DecryptOk(Head(holder.wire[p]).envelope, peerConnections[p].sharedKey)
  /\ link[p]
  /\ link' = [link EXCEPT ![p] = FALSE]
  /\ connections' = MapDelete(connections, p)
  /\ peerConnections' = MapDelete(peerConnections, p)
  /\ reading' = [reading EXCEPT ![p] = FALSE]
  /\ authenticated' = authenticated \ {p}
  /\ pending' = pending \ {p}
  /\ last' = NoRound
  /\ \E a \in RelayAnswer(p, DecryptMessage(Head(holder.wire[p]).envelope,
                                             peerConnections[p].sharedKey)) :
       holder' = [Disconnected({p}) EXCEPT !.relay[p] = a.relay]
  /\ UNCHANGED <<fn, type, sessions, everAuth, hsVars>>

\* The 'peer:disconnect' listener runs for relay p.
PeerDisconnectEvent(p) == NoneResolved /\ PeerDisconnect(p)

NextHolder ==
  \/ \E c \in CallIds, r \in Regions, w \in Addresses : ConnectToMiddleware(c, r, w)
  \/ \E c \in CallIds, ok \in BOOLEAN, a \in Shares, b \in Shares :
       ConnectToPeerReturns(c, ok, a, b)
  \/ \E c \in CallIds, v \in Cids : RequestVaultDecryption(c, v)
  \/ \E c \in CallIds : RequestSSOLogin(c)
  \/ \E c \in CallIds, a \in Cids : RequestAppToken(c, a)
  \/ \E c \in CallIds : NewStreamReturns(c)
  \/ \E p \in Peers : RelayAnswers(p)
  \/ \E p \in Peers : ResponseLost(p)
  \/ \E c \in CallIds : SendMessageReturns(c)
  \/ \E c \in CallIds : StreamError(c)
  \/ \E p \in Peers : PeerDisconnectEvent(p)

SpecHolder == Init /\ [][NextHolder]_vars

\* ------------------------------------------------------------- claims
RequestMessages == VaultDecryptMessages \cup SSOLoginMessages \cup AppTokenMessages

\* The latest step was a round in which the node opened a request of the
\* given types.
Handled(types) == last.opened /\ last.msg.type \in types

\* An Authenticate as connectToMiddleware builds it: a wallet address, and the
\* signature Dilithium.sign made over the challenge of the message.
WellSigned(message) ==
  /\ message.walletAddress # Undefined
  /\ \E k \in Keys : message.signature = Sign(message.challenge, k)

\* C1: after a completed key exchange the shared secret the peer stores for the
\* node equals the one the node stores for the peer.
C1_SharedSecretsAgree ==
  \A p \in Peers :
    (MapHas(connections, p) /\ MapHas(peerConnections, p))
      => connections[p].sharedKey = peerConnections[p].sharedKey

\* C2: on a relay, a request of a peer that never authenticated is answered
\* with an error, no collaborator is called for it and no vault data returned.
C2_UnauthenticatedRejected ==
  type = "middleware" =>
    /\ \A p \in Peers \ everAuth, m \in RequestMessages, o \in Outcomes :
         LET r == HandleMessage(p, m, DefaultDraw, o)
         IN  ~r.resp.success /\ r.calls = {} /\ r.resp.vaultData = Undefined
    /\ (Handled(RequestTypes) /\ last.peer \notin everAuth)
         => /\ ~last.resp.success
            /\ last.calls = {}
            /\ last.resp.vaultData = Undefined

\* C2 witness: a relay has answered a vault_decrypt of a never-authenticated peer.
C2_Witness ==
  /\ type = "middleware"
  /\ Handled({"vault_decrypt"})
  /\ last.peer \notin everAuth
  /\ ~last.resp.success

\* C3: on a relay, a request of an authenticated peer whose sessionId is not
\* the token stored for the peer is answered with an error, calls no
\* collaborator and leaves the session store unchanged.
C3_WrongTokenRejected ==
  type = "middleware" =>
    /\ \A p \in DOMAIN sessions, m \in RequestMessages, o \in Outcomes :
         m.sessionId # sessions[p].sessionId =>
           LET r == HandleMessage(p, m, DefaultDraw, o)
           IN  ~r.resp.success /\ r.calls = {} /\ r.sessions = sessions
    /\ (/\ Handled(RequestTypes)
        /\ MapHas(sessions, last.peer)
        /\ last.msg.sessionId # sessions[last.peer].sessionId)
         => ~last.resp.success /\ last.calls = {} /\ ~last.changed

\* C3 witness: a relay has answered a request of an authenticated peer that
\* carried another token than the stored one.
C3_Witness ==
  /\ type = "middleware"
  /\ Handled(RequestTypes)
  /\ last.peer \in authenticated
  /\ last.msg.sessionId # sessions[last.peer].sessionId
  /\ last.resp.error = "Invalid session"

\* C4: once peer p is disconnected the node holds no record of p, neither in
\* connections nor in sessions.
C4_NoRecordAfterDisconnect ==
  \A p \in Peers :
    ~link[p] => ~MapHas(connections, p) /\ ~MapHas(sessions, p)

\* C5: a request of a peer that has not authenticated on its current
\* connection, carrying the token stored from before the disconnect, is rejected.
C5_OldTokenRejected ==
  (/\ type = "middleware"
   /\ Handled(RequestTypes)
   /\ last.peer \notin authenticated
   /\ MapHas(sessions, last.peer)
   /\ last.msg.sessionId = sessions[last.peer].sessionId)
    => ~last.resp.success

\* C6: an Authenticate that repeats one the relay accepted before (same
\* principal, challenge and signature) is rejected.
C6_ReplayRejected ==
  (Handled({"auth"}) /\ last.replay) => ~last.resp.success

\* C7: the challenge of an accepted Authenticate is one the relay issued to
\* that peer.
C7_ChallengeIssuedByRelay ==
  (Handled({"auth"}) /\ last.resp.success)
    => last.msg.challenge \in IssuedChallenges(last.peer)

\* C8: an Authenticate whose signature was made over its challenge with the
\* holder's key, for the holder's wallet address, is answered with success and
\* a session token, and the session is recorded with that principal.
C8_HonestAuthenticateAccepted ==
  (type = "middleware" /\ Handled({"auth"}) /\ WellSigned(last.msg))
    => /\ last.resp.success
       /\ last.resp.sessionId # Undefined
       /\ MapHas(sessions, last.peer)
       /\ sessions[last.peer] = [walletAddress |-> last.msg.walletAddress,
                                 sessionId |-> last.resp.sessionId]

\* C9 as stated: after an Authenticate that failed, the peer has no
\* authenticated principal or session token, whatever state it was in.
C9_FailedAuthLeavesUnauthenticated ==
  (type = "middleware" /\ Handled({"auth"}) /\ ~last.resp.success)
    => ~MapHas(sessions, last.peer) /\ last.peer \notin authenticated

\* C9 amended: an Authenticate whose signature does not verify is answered
\* with an error and leaves the session store as it was; a peer that never
\* authenticated has no principal or token afterwards.
C9_FailedAuthChangesNothing ==
  type = "middleware" =>
    /\ \A p \in Peers, m \in AuthMessages, d \in Draws :
         ~VerifySignature(m.challenge, m.signature, m.walletAddress, d.verifyKey)
           => LET r == HandleAuth(p, m, d)
              IN  /\ ~r.resp.success
                  /\ r.resp.sessionId = Undefined
                  /\ r.sessions = sessions
    /\ (Handled({"auth"}) /\ ~last.resp.success)
         => /\ ~last.changed
            /\ last.resp.sessionId = Undefined
            /\ last.peer \notin everAuth => ~MapHas(sessions, last.peer)

\* C9 witness: a relay has rejected the Authenticate of a never-authenticated
\* peer whose signature was made over another challenge.
C9_Witness ==
  /\ type = "middleware"
  /\ Handled({"auth"})
  /\ last.msg.signature # Malformed
  /\ last.msg.signature.msg # last.msg.challenge
  /\ last.resp.error = "Invalid signature"
  /\ ~MapHas(sessions, last.peer)

\* C10: after a failed Authenticate the connection record and the stream loop
\* of the peer are still there, and an Authenticate that verifies is accepted.
C10_SessionOpenAfterFailedAuth ==
  (Handled({"auth"}) /\ ~last.resp.success)
    => /\ link[last.peer]
       /\ MapHas(connections, last.peer)
       /\ reading[last.peer]
       /\ type = "middleware" =>
            \E m \in AuthMessages, d \in Draws :
              HandleAuth(last.peer, m, d).resp.success

\* C10 witness: an Authenticate was accepted in the round right after a failed
\* one of the same peer, on the same connection.
C10_Witness ==
  Handled({"auth"}) /\ last.afterFail /\ last.resp.success

\* C11: for every decrypted message of every type, on a node of either type,
\* _handleMessage comes back with one response object (success or error).
C11_DispatcherTotal ==
  /\ \A p \in Peers, m \in AuthMessages \cup UnknownMessages, d \in Draws :
       HandleMessage(p, m, d, DefaultOutcome).resp # NoResponse
  /\ \A p \in Peers, m \in RequestMessages, o \in Outcomes :
       HandleMessage(p, m, DefaultDraw, o).resp # NoResponse
  /\ last.opened => last.resp # NoResponse

\* C12: an envelope that does not open is answered with an error response, the
\* connection record stays and the stream is read on.
C12_DecryptFailureAnswered ==
  (last.peer # Undefined /\ ~last.opened)
    => /\ last.resp # NoResponse
       /\ ~last.resp.success
       /\ MapHas(connections, last.peer)
       /\ reading[last.peer]

\* C13: a request whose handler awaits a collaborator that never returns is
\* eventually answered (with a timeout error).
C13_HungRequestAnswered ==
  \A p \in Peers : (p \in pending) ~> (p \notin pending)

\* C14: the node reads no request of a peer while an earlier request of that
\* peer has not been answered, whatever the number of streams the peer opened.
C14_OneRequestAtATime ==
  last.peer # Undefined => ~last.overlap

\* C15: no message of a peer is decrypted or dispatched, and no stream of the
\* peer is read, before a key exchange with the peer has completed and its
\* shared key is in the connection record.
C15_NoMessageBeforeKeyExchange ==
  /\ \A p \in Peers : reading[p] => MapHas(connections, p)
  /\ \A p \in Peers : \A s \in DOMAIN kx[p] : ~MapHas(streams[p], s)
  /\ last.opened => MapHas(connections, last.peer)

\* C15 witness: a message was opened for a peer whose stream was set up by a
\* completed key exchange.
C15_Witness ==
  /\ last.opened
  /\ \E s \in DOMAIN streams[last.peer] : streams[last.peer][s].exchanged

\* C16: once a peer that runs this code has dialled the node, and as long as
\* the connection is up, the key exchange completes: both sides get a record.
C16_HandshakeCompletes ==
  \A p \in Peers :
    (dialer[p] = "keyExchange")
      ~> ((MapHas(connections, p) /\ MapHas(peerConnections, p)) \/ ~link[p])

\* C17: a key exchange that waits for the remote side does not wait forever:
\* it completes or is aborted.
C17_StalledHandshakeAborted ==
  \A p \in Peers : \A s \in Streams : MapHas(kx[p], s) ~> ~MapHas(kx[p], s)

\* C18: no connection record is made from an encapsulated key that is not the
\* blob the peer's encapsulate produced.
C18_NoRecordFromFailedExchange ==
  \A p \in DOMAIN connections : connections[p].sharedKey[2] # Garbage

\* C19: every handshake attempt of a peer, a protocol stream arriving from it,
\* is answered with a key exchange whose secret replaces the peer's record,
\* also when the peer has a record already.
C19_SecondHandshakeReplaces ==
  \A p \in Peers : \A s \in DOMAIN streams[p] : streams[p][s].exchanged

\* C20: every stream of a peer is served with the secret of the handshake that
\* set it up: the key _handleStream takes from the record is that secret.
C20_OneSecretPerStream ==
  \A p \in Peers : \A s \in DOMAIN streams[p] :
    MapHas(connections, p) /\ streams[p][s].key = connections[p].sharedKey

C22_ModifiedEnvelopeRejected ==
  (fn.op = "decrypt" /\ fn.modified) => fn.result.threw

\* C23: while the record of the peer and the record of the node hold different
\* shared keys, an envelope sealed under either key does not open under the other,
\* and a round of _handleStream on an envelope sendMessage sealed on the peer
\* ends without a call of the message handler: nothing is dispatched, nothing
\* answered, no session changed.
C23_DifferentSecretsRejectAll ==
  [][\A p \in Peers :
       (/\ MapHas(connections, p)
        /\ MapHas(peerConnections, p)
        /\ connections[p].sharedKey # peerConnections[p].sharedKey)
         => \A m \in SentMessages :
              /\ ~DecryptOk(SendMessage(p, m, AnyIv), connections[p].sharedKey)
              /\ ~DecryptOk(Readable(p, m), peerConnections[p].sharedKey)
              /\ HandleStream(p, SendMessage(p, m, AnyIv), DefaultDraw, DefaultOutcome)
                   => /\ ~last'.opened
                      /\ last'.msg = NoMessage
                      /\ last'.resp = NoResponse
                      /\ last'.calls = {}
                      /\ sessions' = sessions]_vars

\* The node read an envelope of a peer whose record holds another key than
\* the node's, and did not open it.
C23_Witness ==
  /\ last.peer \in Peers
  /\ MapHas(connections, last.peer)
  /\ MapHas(peerConnections, last.peer)
  /\ connections[last.peer].sharedKey # peerConnections[last.peer].sharedKey
  /\ ~last.opened
  /\ ~reading[last.peer]

\* C24: Dilithium.verify never throws, and returns false when the message is
\* no string, the public key is no string or the signature is not a signature.
C24_VerifyNeverThrows ==
  fn.op = "verify"
    => /\ ~fn.result.threw
       /\ (fn.message = Undefined \/ fn.publicKey = Undefined
             \/ fn.signature = Malformed) => ~fn.result.value

\* Dilithium.verify was called with a message and a public key that are no
\* strings and with a signature that is none.
C24_Witness ==
  /\ fn.op = "verify"
  /\ fn.message = Undefined
  /\ fn.publicKey = Undefined
  /\ fn.signature = Malformed
  /\ ~fn.result.value

\* C25: two runs of a holder with the same wallet key have the same peer id
\* and sign with the same key.
C25_DerivationDeterministic ==
  (fn.op = "sign" /\ fn.prior.walletKey = fn.walletKey)
    => /\ fn.peerId = fn.prior.peerId
       /\ fn.signature.key = fn.prior.signature.key

\* C28: a step of stop() leaves the node without a connection record and
\* without a session record.
C28_NothingSurvivesStop ==
  [][Stop => connections' = EmptyMap /\ sessions' = EmptyMap]_vars

\* The error of the response when the collaborator a handler calls throws.
CollaboratorFailures ==
  {"getIdentity failed", "fetchFromIPFS failed", "login failed",
   "getAppToken failed"}

\* The outcomes in which one collaborator throws.
Thrown ==
  {[DefaultOutcome EXCEPT !.identity = "throws"],
   [DefaultOutcome EXCEPT !.fetch = "throws"],
   [DefaultOutcome EXCEPT !.login = "throws"],
   [DefaultOutcome EXCEPT !.appToken = "throws"]}

\* The collaborators the handler of a request type calls.
Collaborators(t) ==
  CASE t = "vault_decrypt" -> {"identity", "fetch"}
    [] t = "sso_login" -> {"login"}
    [] t = "app_token" -> {"appToken"}

\* C26: when a collaborator throws while the node serves an authorized
\* vault_decrypt, sso_login or app_token request, the handler answers
\* {success: false, error} with the error of the failure and leaves the session
\* store as it was; after such a round the peer's session still holds the
\* token of the request and the node reads on.
C26_CollaboratorFailureAnswered ==
  /\ \A p \in Peers : \A m \in RequestMessages :
       (type = "middleware" /\ SessionValid(p, m.sessionId))
         => \A o \in {x \in Thrown :
                        \E c \in Collaborators(m.type) : x[c] = "throws"} :
              LET r == HandleMessage(p, m, DefaultDraw, o)
              IN  /\ r.resp = ErrorResponse(r.resp.error)
                  /\ r.resp.error \in CollaboratorFailures
                  /\ r.sessions = sessions
  /\ (Handled(RequestTypes) /\ last.resp.error \in CollaboratorFailures)
       => /\ ~last.resp.success
          /\ ~last.changed
          /\ SessionValid(last.peer, last.msg.sessionId)
          /\ reading[last.peer]

\* fetchFromIPFS threw while the node served an authorized vault_decrypt.
C26_Witness ==
  /\ Handled({"vault_decrypt"})
  /\ last.resp.error = "fetchFromIPFS failed"
  /\ SessionValid(last.peer, last.msg.sessionId)
  /\ reading[last.peer]

\* C27: _handleVaultDecrypt leaves TunnelService.sessions as it was, and a
\* vault_decrypt that repeats the one the peer's previous round served is
\* authorized again and served from the same session record.
C27_VaultDecryptKeepsSessions ==
  /\ Handled({"vault_decrypt"}) => ~last.changed
  /\ (Handled({"vault_decrypt"}) /\ last.replay)
       => /\ SessionValid(last.peer, last.msg.sessionId)
          /\ last.resp.error # "Invalid session"
          /\ Call("getIdentity", sessions[last.peer].walletAddress) \in last.calls
          /\ last.resp.success
               => last.resp.merkleRoots = sessions[last.peer].walletAddress

\* The same vault_decrypt was served twice in a row.
C27_Witness ==
  /\ Handled({"vault_decrypt"})
  /\ last.replay
  /\ last.resp.success
  /\ ~last.changed

\* The connection record and the session record the node holds for peer q
\* are the same after the step as before it.
RecordsUnchanged(q) ==
  /\ MapHas(connections', q) = MapHas(connections, q)
  /\ MapHas(connections, q) => connections'[q] = connections[q]
  /\ MapHas(sessions', q) = MapHas(sessions, q)
  /\ MapHas(sessions, q) => sessions'[q] = sessions[q]

\* The step is a key exchange, a further protocol stream, a disconnect or a
\* _handleStream round (the only steps that set last.peer) of peer p.
StepOf(p) ==
  \/ \E a \in Shares, b \in Shares : KeyExchange(p, a, b)
  \/ HandleProtocol(p)
  \/ PeerDisconnect(p)
  \/ last'.peer = p

\* C29: a handshake, a round or a disconnect of peer p leaves the connection
\* record and the session record of every other peer as they were.
C29_OtherPeersUntouched ==
  [][\A p \in Peers : StepOf(p) => \A q \in Peers \ {p} : RecordsUnchanged(q)]_vars

\* A round of one peer changed the session store while the node held a
\* connection record and a session record of another peer.
C29_Witness ==
  /\ last.peer \in Peers
  /\ last.changed
  /\ \E q \in Peers \ {last.peer} : MapHas(connections, q) /\ MapHas(sessions, q)

\* C30: a request of peer B that carries the token stored for another peer A,
\* which is not the token stored for B, is rejected as 'Invalid session'
\* before any collaborator is called, whether or not B has a session.
C30_TokenBoundToPeer ==
  (/\ type = "middleware"
   /\ Handled(RequestTypes)
   /\ \E a \in Peers \ {last.peer} :
        MapHas(sessions, a) /\ sessions[a].sessionId = last.msg.sessionId
   /\ MapHas(sessions, last.peer)
        => sessions[last.peer].sessionId # last.msg.sessionId)
    => /\ last.resp = ErrorResponse("Invalid session")
       /\ last.calls = {}
       /\ ~last.changed

\* An authenticated peer sent a request with the token of another peer.
C30_Witness ==
  /\ type = "middleware"
  /\ Handled(RequestTypes)
  /\ last.peer \in authenticated
  /\ MapHas(sessions, last.peer)
  /\ \E a \in Peers \ {last.peer} :
       /\ a \in authenticated
       /\ MapHas(sessions, a)
       /\ sessions[a].sessionId = last.msg.sessionId
  /\ sessions[last.peer].sessionId # last.msg.sessionId
  /\ ~last.resp.success

\* The outcomes in which getIdentity finds no identity, or an inactive one.
NoActiveIdentity ==
  {[DefaultOutcome EXCEPT !.identity = i, !.fetch = f] :
     i \in {"null", "inactive"}, f \in {"ok", "throws", "hangs"}}

\* The calls of fetchFromIPFS among the collaborator calls of a round.
FetchCalls(calls) == {c \in calls : c.op = "fetchFromIPFS"}

\* C40: for an authorized vault_decrypt, storage is read only after getIdentity
\* of the session's principal returned an active identity: with a missing or an
\* inactive identity the answer is the error 'Identity not found or inactive'
\* and fetchFromIPFS is not called.
C40_FetchOnlyForActiveIdentity ==
  /\ \A p \in Peers : \A m \in VaultDecryptMessages :
       (type = "middleware" /\ SessionValid(p, m.sessionId))
         => \A o \in NoActiveIdentity :
              LET r == HandleMessage(p, m, DefaultDraw, o)
              IN  /\ r.resp = ErrorResponse("Identity not found or inactive")
                  /\ FetchCalls(r.calls) = {}
                  /\ r.calls = {Call("getIdentity", sessions[p].walletAddress)}
  /\ (Handled({"vault_decrypt"})
        /\ last.resp.error = "Identity not found or inactive")
       => /\ ~last.resp.success
          /\ last.resp.vaultData = Undefined
          /\ FetchCalls(last.calls) = {}
  /\ (Handled({"vault_decrypt"}) /\ FetchCalls(last.calls) # {})
       => /\ Call("getIdentity", sessions[last.peer].walletAddress) \in last.calls
          /\ last.resp.error # "Identity not found or inactive"

\* A relay answered an authorized vault_decrypt whose principal has no active
\* identity.
C40_Witness ==
  /\ type = "middleware"
  /\ Handled({"vault_decrypt"})
  /\ SessionValid(last.peer, last.msg.sessionId)
  /\ last.resp = ErrorResponse("Identity not found or inactive")
  /\ last.calls = {Call("getIdentity", sessions[last.peer].walletAddress)}

\* The step is a round in which an Authenticate of peer p, which has a session
\* record, is answered with success.
AuthenticatesAgain(p) ==
  /\ MapHas(sessions, p)
  /\ last'.peer = p
  /\ last'.opened
  /\ last'.msg.type = "auth"
  /\ last'.resp.success

\* C35: after a second successful Authenticate of a peer, the relay's session
\* record of the peer is the new principal with the new token and nothing of
\* the earlier record; the earlier token, when the new one differs from it, is
\* rejected as 'Invalid session' in every request that follows, before any
\* collaborator is called.
C35_SecondAuthReplacesSession ==
  [][\A p \in Peers :
       AuthenticatesAgain(p)
         => /\ sessions' = MapSet(sessions, p,
                                  [walletAddress |-> last'.msg.walletAddress,
                                   sessionId |-> last'.resp.sessionId])
            /\ sessions[p].sessionId # last'.resp.sessionId
                 => \A m \in {x \in RequestMessages :
                                x.sessionId = sessions[p].sessionId} :
                      LET r == HandleMessage(p, m, DefaultDraw, DefaultOutcome)'
                      IN  /\ r.resp = ErrorResponse("Invalid session")
                          /\ r.calls = {}]_vars

\* A peer authenticated twice in a row and the second Authenticate changed
\* its session record.
C35_Witness ==
  /\ type = "middleware"
  /\ Handled({"auth"})
  /\ last.resp.success
  /\ last.replay
  /\ last.changed
  /\ sessions[last.peer].sessionId = last.resp.sessionId

\* C31: the vault a vault_decrypt returns is the one recorded in the identity
\* record of the session's principal, and it is the one fetched from storage,
\* whatever vault reference the request names.
C31_VaultOfPrincipalServed ==
  (type = "middleware" /\ Handled({"vault_decrypt"}) /\ last.resp.success)
    => LET principal == sessions[last.peer].walletAddress
       IN  /\ last.resp.vaultData = RegisteredVault(principal)
           /\ FetchCalls(last.calls)
                = {Call("fetchFromIPFS", RegisteredVault(principal))}

\* The principals the collaborators are called for in a round.
CalledFor(calls) == {c.arg : c \in {x \in calls : x.op \in {"getIdentity", "login"}}}

\* C36: the principal a vault_decrypt or an sso_login is served for is the
\* wallet address Authenticate attached to the session: two requests on one
\* session that differ in fields other than sessionId, such as a wallet
\* address the requester supplies, call the collaborators for the same
\* principal.
C36_PrincipalFromSession ==
  /\ \A p \in Peers :
       \A m1 \in NamedVaultDecryptMessages \cup NamedSSOLoginMessages :
         (type = "middleware" /\ SessionValid(p, m1.sessionId))
           => LET r1 == HandleMessage(p, m1, DefaultDraw, DefaultOutcome)
              IN  /\ CalledFor(r1.calls) = {sessions[p].walletAddress}
                  /\ \A w \in Principals \cup {Undefined} : \A v \in Principals :
                       LET m2 == [m1 EXCEPT !.walletAddress = w,
                                            !.vaultCid = IF m1.type = "vault_decrypt"
                                                           THEN RegisteredVault(v)
                                                           ELSE Undefined]
                           r2 == HandleMessage(p, m2, DefaultDraw, DefaultOutcome)
                       IN  CalledFor(r2.calls) = CalledFor(r1.calls)
  /\ (Handled({"vault_decrypt", "sso_login"}) /\ last.calls # {})
       => /\ CalledFor(last.calls) = {sessions[last.peer].walletAddress}
          /\ last.msg.type = "sso_login"
               => last.resp.token \in {Undefined, sessions[last.peer].walletAddress}

\* An sso_login that names another wallet address than the one of the session
\* was served.
C36_Witness ==
  /\ type = "middleware"
  /\ Handled({"sso_login"})
  /\ last.resp.success
  /\ last.msg.walletAddress \in Principals \ {sessions[last.peer].walletAddress}
  /\ last.calls = {Call("login", sessions[last.peer].walletAddress)}

InFlight(p) ==
  {c \in CallIds : holder.call[c].peer = p
                     /\ holder.call[c].pc \in {"newStream", "read"}}

\* The step dials peer p.
Dials(p) == ~link[p] /\ link'[p]

\* C32: nothing is retried across a transport break.  While the node has no
\* connection record of peer p, nothing stands written to p and no call awaits
\* a stream or a response of p; a sendMessage to p throws 'No connection to
\* peer' without writing; the only step that dials p is the connectToPeer of a
\* connectToMiddleware call, and the only step that writes to p is one of a
\* call that found a connection record.
C32_NoRetryAfterDisconnect ==
  [][\A p \in Peers :
       /\ ~MapHas(connections, p)
            => /\ holder.wire[p] = <<>>
               /\ InFlight(p) = {}
               /\ (MapHas(sessions, p) /\ holder'.done.op \in RequestTypes
                     /\ holder'.call = holder.call)
                    => /\ holder'.done.error = "No connection to peer"
                       /\ ~holder'.done.ok
                       /\ ~holder'.done.wrote
                       /\ holder'.wire[p] = <<>>
                       /\ ~link'[p]
       /\ Dials(p)
            => \E c \in CallIds : /\ holder.call[c].op = "connect"
                                  /\ holder.call[c].pc = "dial"
                                  /\ holder.call[c].peer = p
                                  /\ holder'.call[c].pc # "dial"
       /\ holder'.done.error = "No connection to peer"
            => ~holder'.done.ok /\ ~holder'.done.wrote]_vars

\* A request method was called after the relay of the holder's session had
\* disconnected: it threw, and the relay was neither dialled nor written to.
C32_Witness ==
  /\ type = "wallet"
  /\ holder.done.op \in RequestTypes
  /\ holder.done.error = "No connection to peer"
  /\ ~holder.done.wrote
  /\ \E p \in Peers : /\ MapHas(sessions, p)
                      /\ ~link[p]
                      /\ ~MapHas(connections, p)
                      /\ holder.wire[p] = <<>>

\* C33: a holder never has two requests outstanding on a session, and every
\* sendMessage call returns the response the relay produced for the request
\* the call wrote.
C33_OwnResponse ==
  /\ \A p \in Peers :
       Cardinality({c \in CallIds : holder.call[c].peer = p
                                      /\ holder.call[c].pc = "read"}) <= 1
  /\ \A c \in CallIds : holder.call[c].pc = "got" => holder.call[c].own

\* A connectToMiddleware call is running.
Connecting == \E c \in CallIds : holder.call[c].op = "connect"

\* C37: whenever the holder has a session record of relay p and relay p has
\* one of the holder, and no connectToMiddleware call is running, the session
\* id of the holder's record is the token of the relay's record.
C37_TokensAgree ==
  \A p \in Peers :
    (MapHas(sessions, p) /\ holder.relay[p] # Undefined /\ ~Connecting)
      => sessions[p].sessionId = holder.relay[p]

\* The errors of the type checks.
OnlyMiddleware ==
  {"Only middleware nodes can handle authentication",
   "Only middleware nodes can handle vault decryption",
   "Only middleware nodes can handle SSO login",
   "Only middleware nodes can handle app token requests"}

OnlyWallet ==
  {"Only wallet nodes can connect to middleware",
   "Only wallet nodes can request vault decryption",
   "Only wallet nodes can request SSO login",
   "Only wallet nodes can request app tokens"}

\* C38: a wallet node answers every auth, vault_decrypt, sso_login and
\* app_token it receives with the error of the type check, leaves its session
\* map as it was and calls no collaborator, also for a request that carries
\* the session id of the record the node holds for the sender; on a middleware
\* node connectToMiddleware and the request* methods throw the error of their
\* type check, and the node never dials, never writes and never has a call
\* at an await.
C38_RolesNeverCross ==
  /\ type = "wallet"
       => \A p \in Peers : \A m \in AuthMessages \cup RequestMessages :
            LET r == HandleMessage(p, m, DefaultDraw, DefaultOutcome)
            IN  /\ ~r.resp.success
                /\ r.resp.error \in OnlyMiddleware
                /\ r.sessions = sessions
                /\ r.calls = {}
  /\ type = "middleware"
       => /\ \A c \in CallIds : holder.call[c] = IdleCall
          /\ \A p \in Peers : holder.wire[p] = <<>> /\ ~link[p]
          /\ sessions = EmptyMap
          /\ holder.done # NoDone
               => /\ ~holder.done.ok
                  /\ ~holder.done.wrote
                  /\ holder.done.error \in OnlyWallet

\* requestVaultDecryption was called on a middleware node.
C38_Witness ==
  /\ type = "middleware"
  /\ holder.done.op = "vault_decrypt"
  /\ holder.done.error = "Only wallet nodes can request vault decryption"
  /\ ~holder.done.wrote

\* The step ends a call of the given methods with an exception.
Throwing(ops) == holder'.done.op \in ops /\ ~holder'.done.ok

\* C39: on a wallet node the session map changes only in the step in which
\* connectToMiddleware returns after the relay answered Authenticate with
\* success, and then by the record of that relay with the session id of the
\* answer; a connectToMiddleware that throws (no relay configured for the
\* region, connectToPeer failed, the Authenticate answered with a failure)
\* leaves the map as it was; a request method called with an empty map throws
\* 'No active middleware connection' without writing.
C39_SessionOnlyAfterSuccess ==
  [][type = "wallet"
       => /\ sessions' # sessions
               => \E c \in CallIds :
                    LET call == holder.call[c]
                    IN  /\ call.op = "connect"
                        /\ call.pc = "got"
                        /\ call.resp.success
                        /\ holder'.call[c] = IdleCall
                        /\ holder'.done.ok
                        /\ sessions' = MapSet(sessions, call.peer,
                                              [walletAddress |-> call.msg.walletAddress,
                                               sessionId |-> call.resp.sessionId])
          /\ Throwing({"connect"}) => sessions' = sessions
          /\ (holder'.done.op \in RequestTypes /\ holder'.call = holder.call
                /\ DOMAIN sessions = {})
               => /\ holder'.done.error = "No active middleware connection"
                  /\ ~holder'.done.ok
                  /\ ~holder'.done.wrote]_vars

\* connectToMiddleware threw on a failure answer to its Authenticate and the
\* holder has no session record.
C39_Witness ==
  /\ type = "wallet"
  /\ holder.done.op = "connect"
  /\ ~holder.done.ok
  /\ holder.done.wrote
  /\ holder.done.error = "Invalid signature"
  /\ sessions = EmptyMap

====
